---- MODULE Spec2Model ----
(***************************************************************************)
(* Model of creak's stack ledger (src/main.rs): the ledger file guarded by *)
(* an exclusive flock, the operations that load, prune, mutate and save it *)
(* (reserve_stack_slot, stack_offset_for_id, list_active_entries,          *)
(* clear_active_entries, Drop for StackGuard) and the part of run_alert    *)
(* that drives them, run by independent OS processes.                      *)
(***************************************************************************)
EXTENDS Integers, Sequences, FiniteSets, TLC

\* ---------------------------------------------------------------- bounds
MaxTime == 2   \* the clock stops here
MaxId == 3     \* no instance is started once next_id has passed this
MaxLen == 4    \* longest ledger given to the pruning step

Instances == {1, 2}   \* the pids of the instances (run_alert); a pid is used again
Ctl == 3              \* the pid of the control commands (list, clear)
Procs == Instances \cup {Ctl}

VARIABLES
  file,          \* content of stack.json
  lock,          \* holder of the flock on stack.lock, 0 when free
  procs,         \* pids of the live processes
  now,           \* wall clock, milliseconds
  pc,            \* position of each process in its command
  cmd,           \* the command line of each process
  st,            \* the StackState a process holds between load and save
  ret,           \* the value the ledger operation in progress is about to return
  guard,         \* stack_guard of run_alert
  last_offset,   \* stack_offset, then last_offset of run_alert: the offset in the margin
  deadline,      \* deadline of run_alert
  closed,        \* state.closed of run_alert
  should_close,  \* SHOULD_CLOSE of each process
  issued,        \* history: the ids handed out so far
  pin, pout,     \* input and result of the pure pruning step
  tmp,           \* content of stack.json.tmp
  keep_entries,  \* `keep` of clear_active_entries
  signalled,     \* history: the send_sigterm calls of the clear in progress
  surface,       \* `state` of run_alert and what the compositor has got for its surface
  result         \* what the last command or store operation returned

vars == <<file, lock, procs, now, pc, cmd, st, ret, guard, last_offset, deadline,
          closed, should_close, issued, pin, pout, tmp, keep_entries, signalled, surface,
          result>>

\* ------------------------------------------------------------- data types
default == [next_id |-> 1, entries |-> <<>>]

NoFile == [kind |-> "absent", data |-> default]
NoOut == [n |-> 0, once |-> default, twice |-> default]
NoGuard == [id |-> 0, position |-> "none"]
NoCmd == [op |-> "none", position |-> "none", height |-> 0, gap |-> 0,
          timeout_ms |-> 0, name |-> "none", class |-> "none",
          selector |-> [kind |-> "none", id |-> 0, text |-> "none"]]

position_key(position) == position

\* ------------------------------------------------------- ledger store
\* ---- the JSON text of a ledger (serde_json with the derives of StackEntry and
\* StackState): a document gives each key a token.
num(n) == [t |-> "num", n |-> n, s |-> ""]
str(s) == [t |-> "str", n |-> 0, s |-> s]
null == [t |-> "null", n |-> 0, s |-> ""]

\* Option<String>: None is written as null.
opt(s) == IF s = "none" THEN null ELSE str(s)

entry_doc(entry) ==
  [id |-> num(entry.id), position |-> str(entry.position), height |-> num(entry.height),
   gap |-> num(entry.gap), expires_at |-> num(entry.expires_at),
   created_at |-> num(entry.created_at), pid |-> num(entry.pid),
   name |-> opt(entry.name), class |-> opt(entry.class), summary |-> str(entry.summary)]

\* serde_json::to_vec(state)
to_vec(state) ==
  [next_id |-> num(state.next_id),
   entries |-> [i \in DOMAIN state.entries |-> entry_doc(state.entries[i])]]

has(d, k, types) == k \in DOMAIN d /\ d[k].t \in types

\* A key marked #[serde(default)] may be missing; if present it must have its type.
may(d, k, types) == k \in DOMAIN d => d[k].t \in types

entry_valid(d) ==
  /\ has(d, "id", {"num"}) /\ has(d, "position", {"str"}) /\ has(d, "height", {"num"})
  /\ has(d, "gap", {"num"}) /\ has(d, "expires_at", {"num"})
  /\ may(d, "created_at", {"num"}) /\ may(d, "pid", {"num"})
  /\ may(d, "name", {"str", "null"}) /\ may(d, "class", {"str", "null"})
  /\ may(d, "summary", {"str"})

doc_valid(doc) ==
  /\ doc.next_id.t = "num"
  /\ \A i \in DOMAIN doc.entries : entry_valid(doc.entries[i])

number_or(d, k, v) == IF k \in DOMAIN d THEN d[k].n ELSE v
string_or(d, k, v) == IF k \in DOMAIN d /\ d[k].t = "str" THEN d[k].s ELSE v

\* Mutant: created_at is not read back.
entry_of_skipping(d) ==
  [id |-> d.id.n, position |-> d.position.s, height |-> d.height.n, gap |-> d.gap.n,
   expires_at |-> d.expires_at.n, created_at |-> 0,
   pid |-> number_or(d, "pid", 0), name |-> string_or(d, "name", "none"),
   class |-> string_or(d, "class", "none"), summary |-> string_or(d, "summary", "")]

entry_of(d) ==
  [id |-> d.id.n, position |-> d.position.s, height |-> d.height.n, gap |-> d.gap.n,
   expires_at |-> d.expires_at.n, created_at |-> number_or(d, "created_at", 0),
   pid |-> number_or(d, "pid", 0), name |-> string_or(d, "name", "none"),
   class |-> string_or(d, "class", "none"), summary |-> string_or(d, "summary", "")]

\* Mutant: an entry that lacks a required key is read with the key at 0 or "".
from_str_lenient(doc) ==
  [ok |-> TRUE,
   state |-> [next_id |-> doc.next_id.n,
              entries |-> [i \in DOMAIN doc.entries |->
                             [id |-> number_or(doc.entries[i], "id", 0),
                              position |-> string_or(doc.entries[i], "position", ""),
                              height |-> number_or(doc.entries[i], "height", 0),
                              gap |-> number_or(doc.entries[i], "gap", 0),
                              expires_at |-> number_or(doc.entries[i], "expires_at", 0),
                              created_at |-> number_or(doc.entries[i], "created_at", 0),
                              pid |-> number_or(doc.entries[i], "pid", 0),
                              name |-> string_or(doc.entries[i], "name", "none"),
                              class |-> string_or(doc.entries[i], "class", "none"),
                              summary |-> string_or(doc.entries[i], "summary", "")]]]]

\* serde_json::from_str(&data)
from_str(doc) ==
  IF doc_valid(doc)
  THEN [ok |-> TRUE,
        state |-> [next_id |-> doc.next_id.n,
                   entries |-> [i \in DOMAIN doc.entries |-> entry_of(doc.entries[i])]]]
  ELSE [ok |-> FALSE, state |-> default]

\* A file of kind "json" stands for a text that parses to its data; a file of kind
\* "text" holds the document itself. Any other file reads as the default state.
load_state(f) ==
  IF f.kind = "json" THEN f.data
  ELSE IF f.kind = "text" /\ from_str(f.data).ok THEN from_str(f.data).state
  ELSE default

save_state(state) == [kind |-> "json", data |-> state]

\* Pids of processes of another user, which exist throughout: kill fails with EPERM.
Foreign == {4}

\* kill(pid, sig) against the pids of the live processes: what the call reports.
probe(pid, live) ==
  IF pid \in live THEN "ok" ELSE IF pid \in Foreign THEN "EPERM" ELSE "ESRCH"

\* Mutant: only a probe that succeeds counts as alive.
process_alive_strict(pid, live) == pid = 0 \/ probe(pid, live) = "ok"

process_alive(pid, live) == pid = 0 \/ probe(pid, live) \in {"ok", "EPERM"}

\* Mutant: the deadline itself still counts as live.
not_expired_late(entry, t) == entry.expires_at = 0 \/ entry.expires_at >= t

not_expired(entry, t) == entry.expires_at = 0 \/ entry.expires_at > t

\* Mutant: an entry is dropped one millisecond before its deadline.
prune_keep_early(entry, t, live) ==
  (entry.expires_at = 0 \/ entry.expires_at > t + 1) /\ process_alive(entry.pid, live)

prune_keep(entry, t, live) == not_expired(entry, t) /\ process_alive(entry.pid, live)

\* Mutant: a removal loop that steps over the entry after each one it removes.
RECURSIVE prune_skipping(_, _, _)
prune_skipping(entries, t, live) ==
  IF entries = <<>> THEN <<>>
  ELSE IF prune_keep(Head(entries), t, live)
       THEN <<Head(entries)>> \o prune_skipping(Tail(entries), t, live)
       ELSE IF Tail(entries) = <<>> THEN <<>>
            ELSE <<Head(Tail(entries))>> \o prune_skipping(Tail(Tail(entries)), t, live)

prune_entries_skipping(state, t, live) ==
  [state EXCEPT !.entries = prune_skipping(@, t, live)]

prune_entries(state, t, live) ==
  LET keep(entry) == prune_keep(entry, t, live)
  IN  [state EXCEPT !.entries = SelectSeq(@, keep)]

\* ------------------------------------------------------ slot reservation
RECURSIVE sum_extents(_)
sum_extents(entries) ==
  IF entries = <<>> THEN 0
  ELSE Head(entries).height + Head(entries).gap + sum_extents(Tail(entries))

\* Mutant: the position filter is left out.
reserve_offset_all(state, key) == sum_extents(state.entries)

reserve_offset(state, key) ==
  LET same(entry) == entry.position = key
  IN  sum_extents(SelectSeq(state.entries, same))

new_entry(p, c, id, t) ==
  [id |-> id, position |-> position_key(c.position), height |-> c.height,
   gap |-> c.gap, expires_at |-> t + c.timeout_ms, created_at |-> t, pid |-> p,
   name |-> c.name, class |-> c.class, summary |-> "msg"]

\* Mutant: the new entry is put in front of the others.
reserve_push_front(state, p, c, t) ==
  [next_id |-> state.next_id + 1,
   entries |-> <<new_entry(p, c, state.next_id, t)>> \o state.entries]

reserve_push(state, p, c, t) ==
  [next_id |-> state.next_id + 1,
   entries |-> Append(state.entries, new_entry(p, c, state.next_id, t))]

\* ------------------------------------------------------ placement poller
RECURSIVE offset_before(_, _)
offset_before(entries, g) ==
  IF entries = <<>> THEN 0
  ELSE IF Head(entries).position # g.position THEN offset_before(Tail(entries), g)
  ELSE IF Head(entries).id = g.id THEN 0
  ELSE Head(entries).height + Head(entries).gap + offset_before(Tail(entries), g)

stack_offset_for_id(state, g) == offset_before(state.entries, g)

\* ------------------------------------------------------- control surface
clear_matches(entry, selector) ==
  CASE selector.kind = "id" -> entry.id = selector.id
    [] selector.kind = "name" -> entry.name = selector.text
    [] selector.kind = "class" -> entry.class = selector.text

\* Mutant: only the first match is removed.
clear_keep_one(state, selector) ==
  LET hits == {i \in DOMAIN state.entries : clear_matches(state.entries[i], selector)}
      first == IF hits = {} THEN 0 ELSE CHOOSE i \in hits : \A j \in hits : i <= j
  IN  [state EXCEPT !.entries = SubSeq(@, 1, first - 1) \o SubSeq(@, first + 1, Len(@))]

clear_keep(state, selector) ==
  LET keep(entry) == ~clear_matches(entry, selector)
  IN  [state EXCEPT !.entries = SelectSeq(@, keep)]

clear_signalled(state, selector) ==
  {state.entries[i].pid : i \in {j \in DOMAIN state.entries :
                                    clear_matches(state.entries[j], selector)}}

\* ---------------------------------------------------------- lease release
\* Mutant: the guard's position is compared instead of its id.
release_entry_position(state, g) ==
  LET keep(entry) == entry.position # g.position
  IN  [state EXCEPT !.entries = SelectSeq(@, keep)]

release_entry(state, g) ==
  LET keep(entry) == entry.id # g.id
  IN  [state EXCEPT !.entries = SelectSeq(@, keep)]

\* ------------------------------------------------------------ commands
\* The command lines the processes are started with.
show(po, h, g, t, n, c) ==
  [NoCmd EXCEPT !.op = "show", !.position = po, !.height = h, !.gap = g,
                !.timeout_ms = t, !.name = n, !.class = c]

Shows == {show("top", 2, 1, 1, "water", "reminder"),
          show("bottom", 3, 1, 2, "none", "reminder")}

Selectors == {[kind |-> "id", id |-> 1, text |-> "none"]}
             \cup {[kind |-> "name", id |-> 0, text |-> "water"],
                   [kind |-> "class", id |-> 0, text |-> "reminder"]}

Clears == {[NoCmd EXCEPT !.op = "clear", !.selector = s] : s \in Selectors}

List == [NoCmd EXCEPT !.op = "list"]

\* No run_alert: no State, and nothing sent to the compositor.
\* ------------------------------------------------------------ margins
\* Margins::default()
NoMargins == [top |-> 0, right |-> 0, bottom |-> 0, left |-> 0]

\* cfg.edge and cfg.default_offset
edge == 20
default_offset == 250

\* position_to_anchor: the anchor and the base margins of a position.
position_to_anchor(position) ==
  CASE position = "top-left" ->
         [anchor |-> {"Top", "Left"}, margins |-> [NoMargins EXCEPT !.top = edge, !.left = edge]]
    [] position = "top" ->
         [anchor |-> {"Top"}, margins |-> [NoMargins EXCEPT !.top = edge]]
    [] position = "top-right" ->
         [anchor |-> {"Top", "Right"}, margins |-> [NoMargins EXCEPT !.top = edge, !.right = edge]]
    [] position = "left" ->
         [anchor |-> {"Left"}, margins |-> [NoMargins EXCEPT !.left = edge]]
    [] position = "center" ->
         [anchor |-> {}, margins |-> NoMargins]
    [] position = "right" ->
         [anchor |-> {"Right"}, margins |-> [NoMargins EXCEPT !.right = edge]]
    [] position = "bottom-left" ->
         [anchor |-> {"Bottom", "Left"},
          margins |-> [NoMargins EXCEPT !.bottom = edge, !.left = edge]]
    [] position = "bottom" ->
         [anchor |-> {"Bottom"}, margins |-> [NoMargins EXCEPT !.bottom = edge]]
    [] position = "bottom-right" ->
         [anchor |-> {"Bottom", "Right"},
          margins |-> [NoMargins EXCEPT !.bottom = edge, !.right = edge]]
    [] OTHER ->
         [anchor |-> {"Top"}, margins |-> [NoMargins EXCEPT !.top = default_offset]]

apply_stack_offset(margins, position, offset) ==
  IF position \in {"bottom", "bottom-left", "bottom-right"}
  THEN [margins EXCEPT !.bottom = @ + offset]
  ELSE [margins EXCEPT !.top = @ + offset]

\* Mutant: the surface is committed before its anchor, margin and size are set.
first_commit_requests_early ==
  <<"commit", "set_anchor", "set_margin", "set_size", "set_keyboard_interactivity",
    "set_exclusive_zone">>

\* The requests up to the first commit, and those of the buffer.
first_commit_requests ==
  <<"set_anchor", "set_margin", "set_size", "set_keyboard_interactivity",
    "set_exclusive_zone", "commit">>

buffer_requests ==
  <<"set_buffer_scale", "set_input_region", "attach", "damage_buffer", "commit">>

\* `requests` is the order of the requests made on the surface and its layer
\* surface, `margins` the margin of the last set_margin, `damage` the size given to
\* damage_buffer.
NoSurface ==
  [connects |-> FALSE, globals |-> {}, output_scale |-> 1, seat |-> FALSE,
   configured |-> FALSE, width |-> 0, height |-> 0, scale |-> 1, outputs |-> {},
   configures |-> <<>>, acks |-> <<>>, attached |-> FALSE, commits |-> 0,
   pixel_width |-> 0, pixel_height |-> 0, margins |-> NoMargins, requests |-> <<>>,
   damage |-> [width |-> 0, height |-> 0]]

NoResult == [op |-> "none", ok |-> TRUE, value |-> 0]

\* The variables of the step-by-step specifications start, and in the others stay,
\* at these values.
NoAux ==
  /\ tmp = NoFile
  /\ keep_entries = <<>>
  /\ signalled = {}
  /\ result = NoResult
  /\ surface = [p \in Procs |-> NoSurface]

aux == <<tmp, keep_entries, signalled, result, surface>>
Init ==
  /\ file = NoFile
  /\ lock = 0
  /\ procs = {}
  /\ now = 1
  /\ pc = [p \in Procs |-> "none"]
  /\ cmd = [p \in Procs |-> NoCmd]
  /\ st = [p \in Procs |-> default]
  /\ ret = [p \in Procs |-> 0]
  /\ guard = [p \in Procs |-> NoGuard]
  /\ last_offset = [p \in Procs |-> 0]
  /\ deadline = [p \in Procs |-> 0]
  /\ closed = [p \in Procs |-> FALSE]
  /\ should_close = [p \in Procs |-> FALSE]
  /\ issued = {}
  /\ pin = default
  /\ pout = NoOut
  /\ NoAux

pure == <<pin, pout, aux>>
loopvars == <<guard, last_offset, deadline, closed>>

\* Mutant: lock_state without the flock.
lock_free_none(p) == TRUE

\* The flock of lock_state: it blocks until no other open file holds the lock.
lock_free(p) == lock = 0

\* The pid of a process that is gone is given to a new process, but not while a
\* ledger operation that has probed the pids is between its load and its save.
pid_unused(p) ==
  \A q \in Procs : pc[q] \notin {"reserve_save", "drop_save", "list_save", "clear_save"}

\* A process is started with its command line.
spawn(p, c) ==
  /\ pc[p] = "none"
  /\ procs' = procs \cup {p}
  /\ cmd' = [cmd EXCEPT ![p] = c]

\* run_alert from the reservation's return to the start of the loop: the margin
\* gets the offset, the surface is committed, the deadline is set.
enter_loop(p, offset, timeout_ms) ==
  /\ last_offset' = [last_offset EXCEPT ![p] = offset]
  /\ deadline' = [deadline EXCEPT ![p] = now + timeout_ms]
  /\ pc' = [pc EXCEPT ![p] = "loop"]

\* Mutant: the flock outlives the process that took it.
process_exit_leak(p) ==
  /\ pc' = [pc EXCEPT ![p] = "none"]
  /\ procs' = procs \ {p}
  /\ lock' = lock
  /\ st' = [st EXCEPT ![p] = default]
  /\ ret' = [ret EXCEPT ![p] = 0]
  /\ guard' = [guard EXCEPT ![p] = NoGuard]
  /\ last_offset' = [last_offset EXCEPT ![p] = 0]
  /\ deadline' = [deadline EXCEPT ![p] = 0]
  /\ closed' = [closed EXCEPT ![p] = FALSE]
  /\ should_close' = [should_close EXCEPT ![p] = FALSE]
  /\ cmd' = [cmd EXCEPT ![p] = NoCmd]

\* The process returns from main (or is killed): the kernel drops its pid and the
\* flock it may hold.
process_exit(p) ==
  /\ pc' = [pc EXCEPT ![p] = "none"]
  /\ procs' = procs \ {p}
  /\ lock' = IF lock = p THEN 0 ELSE lock
  /\ st' = [st EXCEPT ![p] = default]
  /\ ret' = [ret EXCEPT ![p] = 0]
  /\ guard' = [guard EXCEPT ![p] = NoGuard]
  /\ last_offset' = [last_offset EXCEPT ![p] = 0]
  /\ deadline' = [deadline EXCEPT ![p] = 0]
  /\ closed' = [closed EXCEPT ![p] = FALSE]
  /\ should_close' = [should_close EXCEPT ![p] = FALSE]
  /\ cmd' = [cmd EXCEPT ![p] = NoCmd]

\* ---- reserve_stack_slot, called by run_alert of a new instance
\* lock_state, load_state, prune_entries, the offset and the push.
ReserveLoad(p) ==
  /\ p \in Instances
  /\ pid_unused(p)
  /\ load_state(file).next_id <= MaxId
  /\ lock_free(p)
  /\ lock' = p
  /\ \E c \in Shows :
       /\ spawn(p, c)
       /\ LET state == prune_entries(load_state(file), now, procs')
          IN  /\ ret' = [ret EXCEPT ![p] = reserve_offset(state, position_key(c.position))]
              /\ st' = [st EXCEPT ![p] = reserve_push(state, p, c, now)]
  /\ pc' = [pc EXCEPT ![p] = "reserve_save"]
  /\ UNCHANGED <<file, now, loopvars, should_close, issued, pure>>

\* lock_state returns Err: run_alert goes on without a slot, at offset 0.
ReserveLockErr(p) ==
  /\ p \in Instances
  /\ pid_unused(p)
  /\ \E c \in Shows :
       /\ spawn(p, NoCmd)
       /\ enter_loop(p, 0, c.timeout_ms)
  /\ UNCHANGED <<file, lock, now, st, ret, guard, closed, should_close, issued, pure>>

\* save_state, then the lock is dropped and the offset and the guard are returned.
ReserveSave(p) ==
  /\ pc[p] = "reserve_save"
  /\ file' = save_state(st[p])
  /\ guard' = [guard EXCEPT ![p] = [id |-> st[p].next_id - 1,
                                    position |-> position_key(cmd[p].position)]]
  /\ issued' = issued \cup {st[p].next_id - 1}
  /\ lock' = IF lock = p THEN 0 ELSE lock
  /\ st' = [st EXCEPT ![p] = default]
  /\ ret' = [ret EXCEPT ![p] = 0]
  /\ cmd' = [cmd EXCEPT ![p] = NoCmd]
  /\ enter_loop(p, ret[p], cmd[p].timeout_ms)
  /\ UNCHANGED <<procs, now, closed, should_close, pure>>

\* save_state returns Err: the file is as it was and no guard is made.
ReserveSaveErr(p) ==
  /\ pc[p] = "reserve_save"
  /\ lock' = IF lock = p THEN 0 ELSE lock
  /\ st' = [st EXCEPT ![p] = default]
  /\ ret' = [ret EXCEPT ![p] = 0]
  /\ cmd' = [cmd EXCEPT ![p] = NoCmd]
  /\ enter_loop(p, 0, cmd[p].timeout_ms)
  /\ UNCHANGED <<file, procs, now, guard, closed, should_close, issued, pure>>

\* ---- the loop of run_alert
\* Mutant: the loop condition does not read SHOULD_CLOSE.
loop_continues_unsignalled(p) == now < deadline[p] /\ ~closed[p]

\* Mutant: the loop condition does not read state.closed.
loop_continues_unclosed(p) == now < deadline[p] /\ ~should_close[p]

loop_continues(p) == now < deadline[p] /\ ~closed[p] /\ ~should_close[p]

\* The loop ends when the deadline has passed, SHOULD_CLOSE is set, or a Closed
\* event or a pointer press has set state.closed (the compositor's choice).
loop_ends(p) == \E c \in BOOLEAN : ~loop_continues(p) \/ c

\* ---- stack_offset_for_id
\* One turn of the loop in which the poller is due: the lock is taken, the file is
\* read and the lock is dropped at the return; a new offset is applied to the margin
\* and kept in last_offset. When lock_state returns Err the turn changes nothing.
PollLoad(p) ==
  /\ pc[p] = "loop"
  /\ loop_continues(p)
  /\ guard[p] # NoGuard
  /\ lock_free(p)
  /\ last_offset' = [last_offset EXCEPT
                       ![p] = stack_offset_for_id(load_state(file), guard[p])]
  /\ UNCHANGED <<file, lock, procs, now, pc, cmd, st, ret, guard, deadline, closed,
                 should_close, issued, pure>>

\* ---- Drop for StackGuard, at the end of run_alert
\* drop(stack_guard) with no guard: nothing to release.
DropNone(p) ==
  /\ pc[p] = "loop"
  /\ loop_ends(p)
  /\ guard[p] = NoGuard
  /\ process_exit(p)
  /\ UNCHANGED <<file, now, issued, pure>>

\* lock_state returns Err: the entry is left to the pruning of a later operation.
DropLockErr(p) ==
  /\ pc[p] = "loop"
  /\ loop_ends(p)
  /\ guard[p] # NoGuard
  /\ process_exit(p)
  /\ UNCHANGED <<file, now, issued, pure>>

\* After the loop only the guard is used.
DropLoad(p) ==
  /\ pc[p] = "loop"
  /\ loop_ends(p)
  /\ guard[p] # NoGuard
  /\ lock_free(p)
  /\ lock' = p
  /\ st' = [st EXCEPT ![p] = release_entry(load_state(file), guard[p])]
  /\ pc' = [pc EXCEPT ![p] = "drop_save"]
  /\ last_offset' = [last_offset EXCEPT ![p] = 0]
  /\ deadline' = [deadline EXCEPT ![p] = 0]
  /\ should_close' = [should_close EXCEPT ![p] = FALSE]
  /\ UNCHANGED <<file, procs, now, cmd, ret, guard, closed, issued, pure>>

DropSave(p) ==
  /\ pc[p] = "drop_save"
  /\ file' = save_state(st[p])
  /\ process_exit(p)
  /\ UNCHANGED <<now, issued, pure>>

DropSaveErr(p) ==
  /\ pc[p] = "drop_save"
  /\ process_exit(p)
  /\ UNCHANGED <<file, now, issued, pure>>

\* ---- list_active_entries, run by a control process
\* ret holds `before`, the number of entries loaded.
ListLoad(p) ==
  /\ p = Ctl
  /\ lock_free(p)
  /\ lock' = p
  /\ spawn(p, List)
  /\ st' = [st EXCEPT ![p] = prune_entries(load_state(file), now, procs')]
  /\ ret' = [ret EXCEPT ![p] = Len(load_state(file).entries)]
  /\ pc' = [pc EXCEPT ![p] = "list_save"]
  /\ UNCHANGED <<file, now, loopvars, should_close, issued, pure>>

\* Mutant: the pruned ledger is never written back.
list_changed_never(state, before) == FALSE

list_changed(state, before) == Len(state.entries) # before

ListSave(p) ==
  /\ pc[p] = "list_save"
  /\ file' = IF list_changed(st[p], ret[p]) THEN save_state(st[p]) ELSE file
  /\ process_exit(p)
  /\ UNCHANGED <<now, issued, pure>>

ListSaveErr(p) ==
  /\ pc[p] = "list_save"
  /\ list_changed(st[p], ret[p])
  /\ process_exit(p)
  /\ UNCHANGED <<file, now, issued, pure>>

\* ---- clear_active_entries, run by a control process
\* SIGTERM reaches handle_signal in a process that is in run_alert before the end
\* of its loop; after the loop the flag is not read again.
handles(q) == pc[q] \in {"reserve_save", "loop"}

\* The loop over the pruned entries: SIGTERM to the owner of each match (its
\* handler sets SHOULD_CLOSE), the others are kept; ret holds `removed`.
ClearLoad(p) ==
  /\ p = Ctl
  /\ lock_free(p)
  /\ lock' = p
  /\ \E c \in Clears :
       /\ spawn(p, c)
       /\ LET state == prune_entries(load_state(file), now, procs')
              kept == clear_keep(state, c.selector)
              hit == clear_signalled(state, c.selector)
          IN  /\ st' = [st EXCEPT ![p] = kept]
              /\ ret' = [ret EXCEPT ![p] = Len(state.entries) - Len(kept.entries)]
              /\ should_close' = [q \in Procs |-> IF q \in hit /\ handles(q) THEN TRUE
                                                  ELSE should_close[q]]
  /\ pc' = [pc EXCEPT ![p] = "clear_save"]
  /\ UNCHANGED <<file, now, loopvars, issued, pure>>

ClearSave(p) ==
  /\ pc[p] = "clear_save"
  /\ file' = save_state(st[p])
  /\ process_exit(p)
  /\ UNCHANGED <<now, issued, pure>>

ClearSaveErr(p) ==
  /\ pc[p] = "clear_save"
  /\ process_exit(p)
  /\ UNCHANGED <<file, now, issued, pure>>

\* ---- environment
\* SIGKILL or a crash: the process is gone wherever it was.
Kill(p) ==
  /\ p \in procs
  /\ process_exit(p)
  /\ UNCHANGED <<file, now, issued, pure>>

Tick ==
  /\ now < MaxTime
  /\ now' = now + 1
  /\ UNCHANGED <<file, lock, procs, pc, cmd, st, ret, loopvars, should_close, issued,
                 pure>>

Step(p) ==
  \/ ReserveLoad(p) \/ ReserveLockErr(p) \/ ReserveSave(p) \/ ReserveSaveErr(p)
  \/ PollLoad(p)
  \/ DropNone(p) \/ DropLockErr(p) \/ DropLoad(p) \/ DropSave(p) \/ DropSaveErr(p)
  \/ ListLoad(p) \/ ListSave(p) \/ ListSaveErr(p)
  \/ ClearLoad(p) \/ ClearSave(p) \/ ClearSaveErr(p)
  \/ Kill(p)

Next == (\E p \in Procs : Step(p)) \/ Tick

Spec == Init /\ [][Next]_vars

\* ---- the ledger file is damaged by something outside the program ("not json")
\* Damage done between an operation's load and its save is either overwritten by
\* the save or, when nothing is saved, the same as damage done after the operation,
\* so it is taken while no operation is in progress.
Corrupt ==
  /\ file.kind = "json"
  /\ lock = 0
  /\ file' = [kind |-> "malformed", data |-> default]
  /\ UNCHANGED <<lock, procs, now, pc, cmd, st, ret, loopvars, should_close, issued, pure>>

SpecCorrupt == Init /\ [][Next \/ Corrupt]_vars

\* ---- prune_entries alone, on every ledger up to MaxLen entries
ExpiresAts == {0, 1, 2, 3}
Pids == {0, 1}

fixture(i, e, pid) ==
  [id |-> i, position |-> "top", height |-> 2, gap |-> 1, expires_at |-> e,
   created_at |-> 1, pid |-> pid, name |-> "none", class |-> "none", summary |-> "msg"]

ledger_of(n, f) ==
  [next_id |-> n + 1, entries |-> [i \in 1..n |-> fixture(i, f[i][1], f[i][2])]]

InitPrune ==
  /\ file = NoFile
  /\ lock = 0
  /\ procs \in SUBSET {1}
  /\ now \in 1..MaxTime
  /\ pc = [p \in Procs |-> "none"]
  /\ cmd = [p \in Procs |-> NoCmd]
  /\ st = [p \in Procs |-> default]
  /\ ret = [p \in Procs |-> 0]
  /\ guard = [p \in Procs |-> NoGuard]
  /\ last_offset = [p \in Procs |-> 0]
  /\ deadline = [p \in Procs |-> 0]
  /\ closed = [p \in Procs |-> FALSE]
  /\ should_close = [p \in Procs |-> FALSE]
  /\ issued = {}
  /\ \E n \in 0..MaxLen : \E f \in [1..n -> ExpiresAts \X Pids] : pin = ledger_of(n, f)
  /\ pout = NoOut
  /\ NoAux

PruneOnce ==
  /\ pout.n = 0
  /\ pout' = [n |-> 1, once |-> prune_entries(pin, now, procs), twice |-> default]
  /\ UNCHANGED <<file, lock, procs, now, pc, cmd, st, ret, loopvars, should_close,
                 issued, pin, aux>>

PruneTwice ==
  /\ pout.n = 1
  /\ pout' = [pout EXCEPT !.n = 2, !.twice = prune_entries(pout.once, now, procs)]
  /\ UNCHANGED <<file, lock, procs, now, pc, cmd, st, ret, loopvars, should_close,
                 issued, pin, aux>>

SpecPrune == InitPrune /\ [][PruneOnce \/ PruneTwice]_vars

\* ---- prune_entries on ledgers whose owners answer the probe in every way
MaxProbe == 3   \* longest ledger given to the pruning step here

ProbePids == {0, 1, 2} \cup Foreign

InitProbe ==
  /\ file = NoFile
  /\ lock = 0
  /\ procs \in SUBSET {1}
  /\ now = MaxTime
  /\ pc = [p \in Procs |-> "none"]
  /\ cmd = [p \in Procs |-> NoCmd]
  /\ st = [p \in Procs |-> default]
  /\ ret = [p \in Procs |-> 0]
  /\ guard = [p \in Procs |-> NoGuard]
  /\ last_offset = [p \in Procs |-> 0]
  /\ deadline = [p \in Procs |-> 0]
  /\ closed = [p \in Procs |-> FALSE]
  /\ should_close = [p \in Procs |-> FALSE]
  /\ issued = {}
  /\ \E n \in 0..MaxProbe : \E f \in [1..n -> {0, MaxTime, MaxTime + 1} \X ProbePids] :
       pin = ledger_of(n, f)
  /\ pout = NoOut
  /\ NoAux

SpecProbe == InitProbe /\ [][PruneOnce \/ PruneTwice]_vars

\* ---- clear_active_entries step by step, against owners that come and go
MaxClear == 2   \* longest ledger given to the clear

ClearPids == {0, 1, 2} \cup Foreign
ClearNames == {"water", "none"}

clear_fixture(i, pid, name) ==
  [fixture(i, 0, pid) EXCEPT !.name = name, !.class = "reminder"]

\* The owners with pid 1 and 2 are instances in their loop.
InitClear ==
  /\ \E n \in 1..MaxClear : \E f \in [1..n -> ClearPids \X ClearNames] :
       file = save_state([next_id |-> n + 1,
                          entries |-> [i \in 1..n |-> clear_fixture(i, f[i][1], f[i][2])]])
  /\ lock = 0
  /\ procs = Instances
  /\ now = 1
  /\ pc = [p \in Procs |-> IF p \in Instances THEN "loop" ELSE "none"]
  /\ cmd = [p \in Procs |-> NoCmd]
  /\ st = [p \in Procs |-> default]
  /\ ret = [p \in Procs |-> 0]
  /\ guard = [p \in Procs |-> NoGuard]
  /\ last_offset = [p \in Procs |-> 0]
  /\ deadline = [p \in Procs |-> 0]
  /\ closed = [p \in Procs |-> FALSE]
  /\ should_close = [p \in Procs |-> FALSE]
  /\ issued = {}
  /\ pin = default
  /\ pout = NoOut
  /\ NoAux

\* Mutant: a signal to a process that is gone is an error too.
send_sigterm_strict(pid, live) ==
  IF pid = 0 THEN [ok |-> TRUE, rc |-> "skipped"]
  ELSE [ok |-> probe(pid, live) = "ok", rc |-> probe(pid, live)]

\* No signal for pid 0; Ok when kill succeeds or fails with ESRCH, Err otherwise.
send_sigterm(pid, live) ==
  IF pid = 0 THEN [ok |-> TRUE, rc |-> "skipped"]
  ELSE [ok |-> probe(pid, live) \in {"ok", "ESRCH"}, rc |-> probe(pid, live)]

\* lock_state, load_state, prune_entries; pin keeps the pruned ledger.
ClearBegin(p) ==
  /\ p = Ctl
  /\ lock_free(p)
  /\ lock' = p
  /\ \E c \in Clears : spawn(p, c)
  /\ st' = [st EXCEPT ![p] = prune_entries(load_state(file), now, procs')]
  /\ pin' = prune_entries(load_state(file), now, procs')
  /\ keep_entries' = <<>>
  /\ signalled' = {}
  /\ result' = NoResult
  /\ pc' = [pc EXCEPT ![p] = "clear_loop"]
  /\ UNCHANGED <<file, now, ret, loopvars, should_close, issued, pout, surface, tmp>>

\* One turn of the loop over state.entries.into_iter(): a match is signalled and
\* counted, or ends the clear with the error of send_sigterm; another entry is kept.
ClearVisit(p) ==
  /\ pc[p] = "clear_loop"
  /\ st[p].entries # <<>>
  /\ LET entry == Head(st[p].entries)
         sent == send_sigterm(entry.pid, procs)
     IN  IF ~clear_matches(entry, cmd[p].selector)
         THEN /\ keep_entries' = Append(keep_entries, entry)
              /\ st' = [st EXCEPT ![p].entries = Tail(@)]
              /\ UNCHANGED <<lock, procs, pc, cmd, ret, loopvars, should_close, signalled,
                             result>>
         ELSE /\ signalled' = signalled \cup {[id |-> entry.id, pid |-> entry.pid,
                                               rc |-> sent.rc]}
              /\ IF sent.ok
                 THEN /\ ret' = [ret EXCEPT ![p] = @ + 1]
                      /\ st' = [st EXCEPT ![p].entries = Tail(@)]
                      /\ should_close' =
                           [q \in Procs |-> IF q = entry.pid /\ sent.rc = "ok" /\ handles(q)
                                            THEN TRUE ELSE should_close[q]]
                      /\ UNCHANGED <<lock, procs, pc, cmd, guard, last_offset, deadline,
                                     closed, keep_entries, result>>
                 ELSE /\ result' = [op |-> "clear", ok |-> FALSE, value |-> 0]
                      /\ keep_entries' = <<>>
                      /\ process_exit(p)
  /\ UNCHANGED <<file, now, issued, pin, pout, surface, tmp>>

\* After the loop: state.entries = keep, save_state, Ok(removed).
ClearFinish(p) ==
  /\ pc[p] = "clear_loop"
  /\ st[p].entries = <<>>
  /\ file' = save_state([st[p] EXCEPT !.entries = keep_entries])
  /\ result' = [op |-> "clear", ok |-> TRUE, value |-> ret[p]]
  /\ keep_entries' = <<>>
  /\ process_exit(p)
  /\ UNCHANGED <<now, issued, pin, pout, surface, tmp, signalled>>

ClearFinishErr(p) ==
  /\ pc[p] = "clear_loop"
  /\ st[p].entries = <<>>
  /\ result' = [op |-> "clear", ok |-> FALSE, value |-> 0]
  /\ keep_entries' = <<>>
  /\ process_exit(p)
  /\ UNCHANGED <<file, now, issued, pin, pout, surface, tmp, signalled>>

\* An owner is gone, whatever the clear is doing.
OwnerExit(q) ==
  /\ q \in Instances
  /\ Kill(q)

NextClear ==
  \/ ClearBegin(Ctl) \/ ClearVisit(Ctl) \/ ClearFinish(Ctl) \/ ClearFinishErr(Ctl)
  \/ \E q \in Instances : OwnerExit(q)

SpecClear == InitClear /\ [][NextClear]_vars

\* ---- load_state and save_state on the text of the ledger file
MaxStore == 2

\* One entry with every field set and one with every defaulted field at its default.
full_entry(i) ==
  [id |-> i, position |-> "top", height |-> 2, gap |-> 1, expires_at |-> 2,
   created_at |-> 1, pid |-> 1, name |-> "water", class |-> "reminder", summary |-> "msg"]

bare_entry(i) ==
  [id |-> i, position |-> "bottom", height |-> 3, gap |-> 0, expires_at |-> 0,
   created_at |-> 0, pid |-> 0, name |-> "none", class |-> "none", summary |-> ""]

StoreLedgers ==
  {[next_id |-> n + 1,
    entries |-> [i \in 1..n |-> IF f[i] THEN full_entry(i) ELSE bare_entry(i)]] :
     n \in 0..MaxStore, f \in [1..MaxStore -> BOOLEAN]}

text(doc) == [kind |-> "text", data |-> doc]

without(d, keys) == [k \in DOMAIN d \ keys |-> d[k]]

\* Texts written by hand or by another version: without the defaulted keys (these
\* parse), without a required key or with a string for a number (these do not).
OlderTexts ==
  {text([next_id |-> num(2),
         entries |-> <<without(entry_doc(full_entry(1)),
                               {"created_at", "pid", "name", "class", "summary"})>>])}

BadTexts ==
  {text([next_id |-> num(2), entries |-> <<without(entry_doc(full_entry(1)), {"id"})>>]),
   text([next_id |-> num(3),
         entries |-> <<entry_doc(full_entry(1)),
                       [entry_doc(bare_entry(2)) EXCEPT !.height = str("3")]>>])}

\* What read_to_string and the parser can meet at the ledger path.
Torn == [kind |-> "torn", data |-> default]

StoreFiles ==
  {[kind |-> k, data |-> default] : k \in {"absent", "unreadable", "empty", "malformed"}}
    \cup {text(to_vec(state)) : state \in StoreLedgers} \cup OlderTexts \cup BadTexts

InitStore ==
  /\ file \in StoreFiles
  /\ pin \in StoreLedgers
  /\ lock = 0
  /\ procs = {}
  /\ now = 0
  /\ pc = [p \in Procs |-> "none"]
  /\ cmd = [p \in Procs |-> NoCmd]
  /\ st = [p \in Procs |-> default]
  /\ ret = [p \in Procs |-> 0]
  /\ guard = [p \in Procs |-> NoGuard]
  /\ last_offset = [p \in Procs |-> 0]
  /\ deadline = [p \in Procs |-> 0]
  /\ closed = [p \in Procs |-> FALSE]
  /\ should_close = [p \in Procs |-> FALSE]
  /\ issued = {}
  /\ pout = NoOut
  /\ NoAux

\* Mutant: the data is written to the ledger path itself.
write_path_direct == "path"

\* let tmp = format!("{}.tmp", path)
write_path == "tmp"

storeframe == <<now, cmd, ret, guard, last_offset, deadline, closed, should_close,
                issued, pin, pout, surface, keep_entries, signalled>>

\* lock_state, then load_state
StoreLoad(p) ==
  /\ pc[p] = "none"
  /\ lock_free(p)
  /\ lock' = p
  /\ procs' = procs \cup {p}
  /\ st' = [st EXCEPT ![p] = load_state(file)]
  /\ result' = [op |-> "load", ok |-> TRUE, value |-> Len(load_state(file).entries)]
  /\ pc' = [pc EXCEPT ![p] = "store_loaded"]
  /\ UNCHANGED <<file, tmp, storeframe>>

\* save_state: fs::write creates or truncates its file and then writes the data, of
\* the state just loaded or of another ledger.
SaveStart(p) ==
  /\ pc[p] = "store_loaded"
  /\ \E state \in {st[p], pin} : st' = [st EXCEPT ![p] = state]
  /\ IF write_path = "tmp"
     THEN tmp' = Torn /\ file' = file
     ELSE file' = Torn /\ tmp' = tmp
  /\ pc' = [pc EXCEPT ![p] = "store_writing"]
  /\ UNCHANGED <<lock, procs, result, storeframe>>

SaveWritten(p) ==
  /\ pc[p] = "store_writing"
  /\ IF write_path = "tmp"
     THEN tmp' = text(to_vec(st[p])) /\ file' = file
     ELSE file' = text(to_vec(st[p])) /\ tmp' = tmp
  /\ pc' = [pc EXCEPT ![p] = "store_written"]
  /\ UNCHANGED <<lock, procs, st, result, storeframe>>

\* fs::rename(tmp, path), and the operation ends.
SaveRename(p) ==
  /\ pc[p] = "store_written"
  /\ IF write_path = "tmp"
     THEN file' = tmp /\ tmp' = NoFile
     ELSE file' = file /\ tmp' = tmp
  /\ result' = [op |-> "save", ok |-> TRUE, value |-> Len(st[p].entries)]
  /\ process_exit(p)
  /\ UNCHANGED <<now, issued, pin, pout, surface, keep_entries, signalled>>

\* The `?` of to_vec, of fs::write or of fs::rename: save_state returns the error
\* and the operation ends; whatever was written stays where it is.
SaveFail(p) ==
  /\ pc[p] \in {"store_loaded", "store_writing", "store_written"}
  /\ result' = [op |-> "save", ok |-> FALSE, value |-> 0]
  /\ process_exit(p)
  /\ UNCHANGED <<file, tmp, now, issued, pin, pout, surface, keep_entries, signalled>>

NextStore ==
  \E p \in Instances :
    StoreLoad(p) \/ SaveStart(p) \/ SaveWritten(p) \/ SaveRename(p) \/ SaveFail(p)

SpecStore == InitStore /\ [][NextStore]_vars

\* ---- run_alert stage by stage: its socket waits, its ledger operations and the
\* drop of its guard
\* Mutant: the lock outlives the function that took it.
unlock_kept(p) == lock

\* The File returned by lock_state goes out of scope: the flock is released.
unlock(p) == IF lock = p THEN 0 ELSE lock

\* Mutant: an error return leaves run_alert without dropping stack_guard.
unwind_leak(p) == [pc EXCEPT ![p] = "none"]

\* A `?` returns from run_alert: the locals are dropped, stack_guard among them.
unwind(p) == [pc EXCEPT ![p] = "drop"]

failed(op) == [op |-> op, ok |-> FALSE, value |-> 0]

\* Reservations made in all.
MaxAlert == 2

alertaux == <<issued, pin, pout, surface, tmp, keep_entries, signalled>>

\* install_signal_handlers, SHOULD_CLOSE reset, the connection and the surface.
AlertStart(p) ==
  /\ p \in Instances
  /\ pid_unused(p)
  /\ \E c \in Shows : spawn(p, c)
  /\ pc' = [pc EXCEPT ![p] = "roundtrip"]
  /\ UNCHANGED <<file, lock, now, st, ret, loopvars, should_close, result, alertaux>>

\* event_queue.roundtrip(&mut state)? fails before any slot is reserved.
AlertRoundtripErr(p) ==
  /\ pc[p] = "roundtrip"
  /\ pc' = unwind(p)
  /\ cmd' = [cmd EXCEPT ![p] = NoCmd]
  /\ result' = failed("roundtrip")
  /\ UNCHANGED <<file, lock, procs, now, st, ret, loopvars, should_close, alertaux>>

\* The roundtrip returns and reserve_stack_slot takes the lock, loads and prunes.
AlertReserve(p) ==
  /\ pc[p] = "roundtrip"
  /\ load_state(file).next_id <= MaxAlert
  /\ lock_free(p)
  /\ lock' = p
  /\ LET state == prune_entries(load_state(file), now, procs)
     IN  /\ ret' = [ret EXCEPT ![p] = reserve_offset(state, position_key(cmd[p].position))]
         /\ st' = [st EXCEPT ![p] = reserve_push(state, p, cmd[p], now)]
  /\ pc' = [pc EXCEPT ![p] = "reserve_save"]
  /\ UNCHANGED <<file, procs, now, cmd, loopvars, should_close, result, alertaux>>

\* lock_state returns Err: no slot, offset 0.
AlertReserveLockErr(p) ==
  /\ pc[p] = "roundtrip"
  /\ pc' = [pc EXCEPT ![p] = "display"]
  /\ UNCHANGED <<file, lock, procs, now, cmd, st, ret, loopvars, should_close, result,
                 alertaux>>

AlertReserveSave(p) ==
  /\ pc[p] = "reserve_save"
  /\ file' = save_state(st[p])
  /\ guard' = [guard EXCEPT ![p] = [id |-> st[p].next_id - 1,
                                    position |-> position_key(cmd[p].position)]]
  /\ issued' = issued \cup {st[p].next_id - 1}
  /\ lock' = unlock(p)
  /\ st' = [st EXCEPT ![p] = default]
  /\ pc' = [pc EXCEPT ![p] = "display"]
  /\ UNCHANGED <<procs, now, cmd, ret, last_offset, deadline, closed, should_close,
                 result, pin, pout, surface, tmp, keep_entries, signalled>>

\* Mutant: the offset summed before the failed save is used.
offset_on_err_kept(offset) == offset

\* `if let Ok((offset, guard))` is not taken: stack_offset stays 0.
offset_on_err(offset) == 0

AlertReserveSaveErr(p) ==
  /\ pc[p] = "reserve_save"
  /\ lock' = unlock(p)
  /\ st' = [st EXCEPT ![p] = default]
  /\ ret' = [ret EXCEPT ![p] = offset_on_err(@)]
  /\ pc' = [pc EXCEPT ![p] = "display"]
  /\ UNCHANGED <<file, procs, now, cmd, loopvars, should_close, result, alertaux>>

\* The margin, the commit, flush, roundtrip, create_buffer, draw_notification and
\* flush all return Ok.
AlertDisplay(p) ==
  /\ pc[p] = "display"
  /\ enter_loop(p, ret[p], cmd[p].timeout_ms)
  /\ ret' = [ret EXCEPT ![p] = 0]
  /\ cmd' = [cmd EXCEPT ![p] = NoCmd]
  /\ UNCHANGED <<file, lock, procs, now, st, guard, closed, should_close, result,
                 alertaux>>

\* One of them returns Err, which `?` propagates.
AlertDisplayErr(p) ==
  /\ pc[p] = "display"
  /\ pc' = unwind(p)
  /\ ret' = [ret EXCEPT ![p] = 0]
  /\ cmd' = [cmd EXCEPT ![p] = NoCmd]
  /\ result' = failed("display")
  /\ UNCHANGED <<file, lock, procs, now, st, loopvars, should_close, alertaux>>

\* dispatch_with_timeout or flush returns Err inside the loop.
AlertDispatchErr(p) ==
  /\ pc[p] = "loop"
  /\ loop_continues(p)
  /\ pc' = unwind(p)
  /\ last_offset' = [last_offset EXCEPT ![p] = 0]
  /\ deadline' = [deadline EXCEPT ![p] = 0]
  /\ result' = failed("dispatch")
  /\ UNCHANGED <<file, lock, procs, now, cmd, st, ret, guard, closed, should_close,
                 alertaux>>

\* The poll of the socket returns, the poller is due and stack_offset_for_id takes
\* the lock.
AlertPollLock(p) ==
  /\ pc[p] = "loop"
  /\ loop_continues(p)
  /\ guard[p] # NoGuard
  /\ lock_free(p)
  /\ lock' = p
  /\ pc' = [pc EXCEPT ![p] = "poll_read"]
  /\ UNCHANGED <<file, procs, now, cmd, st, ret, loopvars, should_close, result,
                 alertaux>>

\* stack_offset_for_id loads, sums and returns.
AlertPollRead(p) ==
  /\ pc[p] = "poll_read"
  /\ last_offset' = [last_offset EXCEPT
                       ![p] = stack_offset_for_id(load_state(file), guard[p])]
  /\ lock' = unlock(p)
  /\ pc' = [pc EXCEPT ![p] = "loop"]
  /\ UNCHANGED <<file, procs, now, cmd, st, ret, guard, deadline, closed, should_close,
                 result, alertaux>>

\* The loop condition is false: drop(stack_guard).
AlertLoopEnd(p) ==
  /\ pc[p] = "loop"
  /\ loop_ends(p)
  /\ pc' = [pc EXCEPT ![p] = "drop"]
  /\ last_offset' = [last_offset EXCEPT ![p] = 0]
  /\ deadline' = [deadline EXCEPT ![p] = 0]
  /\ result' = [op |-> "loop", ok |-> TRUE, value |-> 0]
  /\ UNCHANGED <<file, lock, procs, now, cmd, st, ret, guard, closed, should_close,
                 alertaux>>

\* SIGTERM or SIGINT once the handlers are installed; the flag is read by the loop
\* condition alone, so its arrival is taken there.
AlertSignal(p) ==
  /\ pc[p] = "loop"
  /\ ~should_close[p]
  /\ should_close' = [should_close EXCEPT ![p] = TRUE]
  /\ UNCHANGED <<file, lock, procs, now, pc, cmd, st, ret, loopvars, result, alertaux>>

\* stack_guard is None.
AlertDropNone(p) ==
  /\ pc[p] = "drop"
  /\ guard[p] = NoGuard
  /\ result' = NoResult
  /\ process_exit(p)
  /\ UNCHANGED <<file, now, alertaux>>

\* Drop for StackGuard: lock_state returns Err.
AlertDropLockErr(p) ==
  /\ pc[p] = "drop"
  /\ guard[p] # NoGuard
  /\ result' = failed("release")
  /\ process_exit(p)
  /\ UNCHANGED <<file, now, alertaux>>

AlertDropLoad(p) ==
  /\ pc[p] = "drop"
  /\ guard[p] # NoGuard
  /\ lock_free(p)
  /\ lock' = p
  /\ st' = [st EXCEPT ![p] = release_entry(load_state(file), guard[p])]
  /\ pc' = [pc EXCEPT ![p] = "drop_save"]
  /\ UNCHANGED <<file, procs, now, cmd, ret, loopvars, should_close, result, alertaux>>

AlertDropSave(p) ==
  /\ pc[p] = "drop_save"
  /\ file' = save_state(st[p])
  /\ result' = [op |-> "release", ok |-> TRUE, value |-> guard[p].id]
  /\ process_exit(p)
  /\ UNCHANGED <<now, alertaux>>

AlertDropSaveErr(p) ==
  /\ pc[p] = "drop_save"
  /\ result' = failed("release")
  /\ process_exit(p)
  /\ UNCHANGED <<file, now, alertaux>>

AlertStep(p) ==
  \/ AlertStart(p) \/ AlertRoundtripErr(p)
  \/ AlertReserve(p) \/ AlertReserveLockErr(p) \/ AlertReserveSave(p)
  \/ AlertReserveSaveErr(p)
  \/ AlertDisplay(p) \/ AlertDisplayErr(p)
  \/ AlertDispatchErr(p) \/ AlertPollLock(p) \/ AlertPollRead(p) \/ AlertLoopEnd(p)
  \/ AlertSignal(p)
  \/ AlertDropNone(p) \/ AlertDropLockErr(p) \/ AlertDropLoad(p) \/ AlertDropSave(p)
  \/ AlertDropSaveErr(p)

NextAlert == (\E p \in Instances : AlertStep(p)) \/ Tick

SpecAlert == Init /\ [][NextAlert]_vars

\* ---- the lock of the five ledger operations: reserve, poll and release of an
\* instance, list and clear of a control process
Waits == {"reserve_lock", "poll_lock", "drop_lock", "list_lock", "clear_lock"}
Held == {"reserve_save", "poll_read", "drop_save", "list_save", "clear_save"}

\* The stage in which the operation waiting at `stage` holds the lock.
held_of(stage) ==
  CASE stage = "reserve_lock" -> "reserve_save"
    [] stage = "poll_lock" -> "poll_read"
    [] stage = "drop_lock" -> "drop_save"
    [] stage = "list_lock" -> "list_save"
    [] stage = "clear_lock" -> "clear_save"

\* Where each operation leaves its process: reserve and poll return into run_alert,
\* after release, list and clear the process ends.
returns_to_loop(stage) == stage \in {"reserve_lock", "reserve_save", "poll_lock", "poll_read"}

lockframe == <<file, now, st, ret, last_offset, deadline, closed, should_close, issued,
               pure>>

\* A new instance calls reserve_stack_slot; a control process calls list or clear.
LockCall(p) ==
  /\ pc[p] = "none"
  /\ p \notin procs
  /\ procs' = procs \cup {p}
  /\ \E stage \in IF p \in Instances THEN {"reserve_lock"} ELSE {"list_lock", "clear_lock"} :
       pc' = [pc EXCEPT ![p] = stage]
  /\ UNCHANGED <<lock, cmd, guard, lockframe>>

\* The loop of an instance with a guard calls stack_offset_for_id, or ends and drops
\* the guard; without a guard the instance ends.
LoopCall(p) ==
  /\ pc[p] = "loop"
  /\ IF guard[p] = NoGuard
     THEN process_exit(p) /\ UNCHANGED <<file, now, issued, pure>>
     ELSE /\ \E stage \in {"poll_lock", "drop_lock"} : pc' = [pc EXCEPT ![p] = stage]
          /\ UNCHANGED <<lock, procs, cmd, guard, lockframe>>

\* flock(LOCK_EX) returns 0.
LockTake(p) ==
  /\ pc[p] \in Waits
  /\ lock_free(p)
  /\ lock' = p
  /\ pc' = [pc EXCEPT ![p] = held_of(pc[p])]
  /\ UNCHANGED <<procs, cmd, guard, lockframe>>

\* open or flock fails: lock_state returns Err and the operation ends without the lock.
LockErr(p) ==
  /\ pc[p] \in Waits
  /\ IF returns_to_loop(pc[p])
     THEN /\ pc' = [pc EXCEPT ![p] = "loop"]
          /\ UNCHANGED <<lock, procs, cmd, guard, lockframe>>
     ELSE process_exit(p) /\ UNCHANGED <<file, now, issued, pure>>

\* The operation returns Ok and its `_lock` is dropped.
OpReturn(p) ==
  /\ pc[p] \in Held
  /\ IF returns_to_loop(pc[p])
     THEN /\ pc' = [pc EXCEPT ![p] = "loop"]
          /\ lock' = unlock(p)
          /\ guard' = [guard EXCEPT ![p] = [id |-> p, position |-> "top"]]
          /\ UNCHANGED <<procs, cmd, lockframe>>
     ELSE process_exit(p) /\ UNCHANGED <<file, now, issued, pure>>

\* A `?` inside the operation (save_state, send_sigterm) returns Err and its `_lock`
\* is dropped.
OpFail(p) ==
  /\ pc[p] \in Held
  /\ IF returns_to_loop(pc[p])
     THEN /\ pc' = [pc EXCEPT ![p] = "loop"]
          /\ lock' = unlock(p)
          /\ UNCHANGED <<procs, cmd, guard, lockframe>>
     ELSE process_exit(p) /\ UNCHANGED <<file, now, issued, pure>>

NextLock ==
  \E p \in Procs :
    LockCall(p) \/ LoopCall(p) \/ LockTake(p) \/ LockErr(p) \/ OpReturn(p) \/ OpFail(p)
      \/ Kill(p)

\* Between lock_state and its return an operation reads and writes files and sends
\* signals, none of which waits for another process: it returns (weak fairness). A
\* process blocked in flock is granted the lock if the lock is free again and again
\* (strong fairness). Errors and kills are never required to happen.
SpecLock ==
  /\ Init
  /\ [][NextLock]_vars
  /\ \A p \in Procs : WF_vars(OpReturn(p) \/ OpFail(p))
  /\ \A p \in Procs : SF_vars(LockTake(p))

\* ---- the loop of run_alert turn by turn, for notifications with and without a
\* timeout
MaxLoop == 2

LoopShows == {show("top", 2, 1, 1, "water", "reminder"),
              show("top", 3, 1, 0, "none", "reminder")}

\* Mutant: a slot is reserved whatever the timeout.
stacks_always(c) == TRUE

\* if cfg.stack && cfg.timeout_ms > 0, with the default cfg.stack
stacks(c) == c.timeout_ms > 0

\* Mutant: the buffer is drawn only once the surface has been configured.
awaits_configure_strict(p) == ~surface[p].configured

\* run_alert never reads state.configured: after the one roundtrip it draws.
awaits_configure(p) == FALSE

InLoop == {"loop", "dispatch", "poll_lock", "poll_read"}

loopaux == <<issued, pin, pout, tmp, keep_entries, signalled>>

\* install_signal_handlers, SHOULD_CLOSE reset, `state`, the connection, the surface.
LoopStart(p) ==
  /\ p \in Instances
  /\ pid_unused(p)
  /\ now < MaxTime
  /\ load_state(file).next_id
       + Cardinality({q \in Instances : pc[q] \in {"roundtrip", "reserve_save"}}) <= MaxLoop
  /\ \E c \in LoopShows : spawn(p, c)
  /\ pc' = [pc EXCEPT ![p] = "roundtrip"]
  /\ surface' = [surface EXCEPT ![p] = NoSurface]
  /\ UNCHANGED <<file, lock, now, st, ret, loopvars, should_close, result, loopaux>>

\* reserve_stack_slot is called and takes the lock.
LoopReserve(p) ==
  /\ pc[p] = "roundtrip"
  /\ stacks(cmd[p])
  /\ lock_free(p)
  /\ lock' = p
  /\ LET state == prune_entries(load_state(file), now, procs)
     IN  /\ ret' = [ret EXCEPT ![p] = reserve_offset(state, position_key(cmd[p].position))]
         /\ st' = [st EXCEPT ![p] = reserve_push(state, p, cmd[p], now)]
  /\ pc' = [pc EXCEPT ![p] = "reserve_save"]
  /\ UNCHANGED <<file, procs, now, cmd, loopvars, should_close, result, surface, loopaux>>

LoopReserveLockErr(p) == stacks(cmd[p]) /\ AlertReserveLockErr(p)

\* event_queue.roundtrip(&mut state)? fails before the reservation.
LoopRoundtripErr(p) ==
  /\ pc[p] = "roundtrip"
  /\ pc' = unwind(p)
  /\ cmd' = [cmd EXCEPT ![p] = NoCmd]
  /\ UNCHANGED <<file, lock, procs, now, st, ret, loopvars, should_close, result,
                 surface, loopaux>>

\* The condition is false: reserve_stack_slot is not called.
LoopSkipReserve(p) ==
  /\ pc[p] = "roundtrip"
  /\ ~stacks(cmd[p])
  /\ pc' = [pc EXCEPT ![p] = "display"]
  /\ UNCHANGED <<file, lock, procs, now, cmd, st, ret, loopvars, should_close, result,
                 surface, loopaux>>

\* The margin, the commit, flush and the one roundtrip, during which the Configure
\* event has arrived or has not.
LoopConfigure(p) ==
  /\ pc[p] = "display"
  /\ \E configured \in BOOLEAN :
       surface' = [surface EXCEPT ![p].configured = configured]
  /\ pc' = [pc EXCEPT ![p] = "draw"]
  /\ UNCHANGED <<file, lock, procs, now, cmd, st, ret, loopvars, should_close, result,
                 loopaux>>

\* flush or the roundtrip returns Err.
LoopConfigureErr(p) ==
  /\ pc[p] = "display"
  /\ pc' = unwind(p)
  /\ ret' = [ret EXCEPT ![p] = 0]
  /\ cmd' = [cmd EXCEPT ![p] = NoCmd]
  /\ UNCHANGED <<file, lock, procs, now, st, loopvars, should_close, result, surface,
                 loopaux>>

\* create_buffer, draw_notification, attach, commit, flush; the deadline is set.
\* state.configured is not read from here on.
LoopDraw(p) ==
  /\ pc[p] = "draw"
  /\ ~awaits_configure(p)
  /\ enter_loop(p, ret[p], cmd[p].timeout_ms)
  /\ ret' = [ret EXCEPT ![p] = 0]
  /\ cmd' = [cmd EXCEPT ![p] = NoCmd]
  /\ surface' = [surface EXCEPT ![p] = NoSurface]
  /\ UNCHANGED <<file, lock, procs, now, st, guard, closed, should_close, result,
                 loopaux>>

\* create_buffer, draw_notification or flush returns Err.
LoopDrawErr(p) ==
  /\ pc[p] = "draw"
  /\ pc' = unwind(p)
  /\ ret' = [ret EXCEPT ![p] = 0]
  /\ cmd' = [cmd EXCEPT ![p] = NoCmd]
  /\ surface' = [surface EXCEPT ![p] = NoSurface]
  /\ UNCHANGED <<file, lock, procs, now, st, loopvars, should_close, result, loopaux>>

\* The locals of the loop and the flags its condition reads are not read after it.
leave_loop(p) ==
  /\ last_offset' = [last_offset EXCEPT ![p] = 0]
  /\ deadline' = [deadline EXCEPT ![p] = 0]
  /\ closed' = [closed EXCEPT ![p] = FALSE]
  /\ should_close' = [should_close EXCEPT ![p] = FALSE]

\* The top of the loop: the while condition is read.
LoopCheck(p) ==
  /\ pc[p] = "loop"
  /\ IF loop_continues(p)
     THEN /\ pc' = [pc EXCEPT ![p] = "dispatch"]
          /\ UNCHANGED <<last_offset, deadline, closed, should_close>>
     ELSE /\ pc' = [pc EXCEPT ![p] = "drop"]
          /\ leave_loop(p)
  /\ UNCHANGED <<file, lock, procs, now, cmd, st, ret, guard, result, surface, loopaux>>

\* dispatch_with_timeout: the poll of the socket ends, an event that was read may be
\* Closed or a pointer press; flush; then the poller if it is due.
LoopDispatch(p) ==
  /\ pc[p] = "dispatch"
  /\ \E event \in {"none", "Closed", "Button"} :
       closed' = [closed EXCEPT ![p] = @ \/ event # "none"]
  /\ \E due \in BOOLEAN :
       pc' = [pc EXCEPT ![p] = IF guard[p] # NoGuard /\ due THEN "poll_lock" ELSE "loop"]
  /\ UNCHANGED <<file, lock, procs, now, cmd, st, ret, guard, last_offset, deadline,
                 should_close, result, surface, loopaux>>

LoopDispatchErr(p) ==
  /\ pc[p] = "dispatch"
  /\ pc' = unwind(p)
  /\ leave_loop(p)
  /\ UNCHANGED <<file, lock, procs, now, cmd, st, ret, guard, result, surface, loopaux>>

\* stack_offset_for_id: flock returns 0.
LoopPollTake(p) ==
  /\ pc[p] = "poll_lock"
  /\ lock_free(p)
  /\ lock' = p
  /\ pc' = [pc EXCEPT ![p] = "poll_read"]
  /\ UNCHANGED <<file, procs, now, cmd, st, ret, loopvars, should_close, result, surface,
                 loopaux>>

\* stack_offset_for_id returns the Err of lock_state: the turn ends.
LoopPollLockErr(p) ==
  /\ pc[p] = "poll_lock"
  /\ pc' = [pc EXCEPT ![p] = "loop"]
  /\ UNCHANGED <<file, lock, procs, now, cmd, st, ret, loopvars, should_close, result,
                 surface, loopaux>>

\* handle_signal, on SIGTERM or SIGINT while the instance is in its loop.
LoopSignal(p) ==
  /\ pc[p] \in InLoop
  /\ ~should_close[p]
  /\ should_close' = [should_close EXCEPT ![p] = TRUE]
  /\ UNCHANGED <<file, lock, procs, now, pc, cmd, st, ret, loopvars, result, surface,
                 loopaux>>

\* The clock runs on while a deadline is ahead.
LoopTick ==
  /\ now < MaxTime \/ \E p \in Instances : pc[p] \in InLoop /\ now < deadline[p]
  /\ now' = now + 1
  /\ UNCHANGED <<file, lock, procs, pc, cmd, st, ret, loopvars, should_close, result,
                 surface, loopaux>>

\* drop(stack_guard) with None.
LoopDropNone(p) ==
  /\ pc[p] = "drop"
  /\ guard[p] = NoGuard
  /\ process_exit(p)
  /\ UNCHANGED <<file, now, result, surface, loopaux>>

\* Drop for StackGuard: lock_state returns Err.
LoopDropLockErr(p) ==
  /\ pc[p] = "drop"
  /\ guard[p] # NoGuard
  /\ process_exit(p)
  /\ UNCHANGED <<file, now, result, surface, loopaux>>

LoopDropSave(p) ==
  /\ pc[p] = "drop_save"
  /\ file' = save_state(st[p])
  /\ process_exit(p)
  /\ UNCHANGED <<now, result, surface, loopaux>>

LoopDropSaveErr(p) ==
  /\ pc[p] = "drop_save"
  /\ process_exit(p)
  /\ UNCHANGED <<file, now, result, surface, loopaux>>

\* The steps of run_alert in which nothing fails.
LoopOk(p) ==
  \/ LoopReserve(p) \/ LoopSkipReserve(p) \/ AlertReserveSave(p)
  \/ LoopConfigure(p) \/ LoopDraw(p)
  \/ LoopCheck(p) \/ LoopDispatch(p) \/ LoopPollTake(p) \/ AlertPollRead(p)
  \/ LoopDropNone(p) \/ AlertDropLoad(p) \/ LoopDropSave(p)

\* The steps in which a call returns Err.
LoopErr(p) ==
  \/ LoopRoundtripErr(p) \/ LoopReserveLockErr(p) \/ AlertReserveSaveErr(p)
  \/ LoopConfigureErr(p) \/ LoopDrawErr(p)
  \/ LoopDispatchErr(p) \/ LoopPollLockErr(p)
  \/ LoopDropLockErr(p) \/ LoopDropSaveErr(p)

NextLoop ==
  \/ \E p \in Instances : LoopStart(p) \/ LoopOk(p) \/ LoopErr(p) \/ LoopSignal(p)
  \/ LoopTick

\* A started instance goes on with its next call (none of them waits for a peer,
\* and the socket poll has a timeout); a process blocked in flock is granted the lock
\* if the lock is free again and again; the clock advances. No start, no error, no
\* signal and no event is required to happen.
SpecLoop ==
  /\ Init
  /\ [][NextLoop]_vars
  /\ \A p \in Instances : WF_vars(LoopOk(p))
  /\ \A p \in Instances :
       SF_vars(LoopReserve(p) \/ LoopPollTake(p) \/ AlertDropLoad(p))
  /\ WF_vars(LoopTick)

\* ---- run_alert and the compositor: the setup, the events and the surface
MaxSerial == 2

GlobalNames == {"wl_compositor", "wl_shm", "zwlr_layer_shell_v1", "wl_seat"}

\* Mutant: the seat is required too.
required_globals_seat == GlobalNames

\* The three globals bound with `?`; the seat is bound with .ok().
required_globals == {"wl_compositor", "wl_shm", "zwlr_layer_shell_v1"}

\* cfg.output_scale, the factors of Scale events and the sizes of Configure events.
ConfigScales == {0, 2}
Factors == {0, 3}
Proposed == {0, 5}
OutputIds == {1}

\* measure_text, cfg.width and the padding: the locally computed size.
measured == [width |-> 4, height |-> 2]

\* Mutant: the factor is taken as it comes.
max1_raw(n) == n

\* i32::max(1)
max1(n) == IF n > 1 THEN n ELSE 1

\* if width > 0 { state.width = width as i32 }
apply_dimension(proposed, current) == IF proposed > 0 THEN proposed ELSE current

\* zwlr_layer_surface_v1::Event::Configure: ack_configure(serial), then the size.
on_configure(s, serial, width, height) ==
  [s EXCEPT !.configures = Append(@, serial),
            !.acks = Append(@, serial),
            !.configured = TRUE,
            !.width = apply_dimension(width, @),
            !.height = apply_dimension(height, @)]

\* wl_output::Event::Scale
on_scale(s, id, factor) ==
  [s EXCEPT !.outputs = {o \in @ : o[1] # id} \cup {<<id, factor>>},
            !.scale = max1(factor)]

\* wl_surface::Event::Enter
on_enter(s, id) ==
  IF \E o \in s.outputs : o[1] = id
  THEN [s EXCEPT !.scale = max1((CHOOSE o \in s.outputs : o[1] = id)[2])]
  ELSE s

surfaceframe == <<file, lock, procs, now, cmd, st, ret, loopvars, should_close, issued,
                  pin, pout, tmp, keep_entries, signalled>>

\* measure_text and the State of run_alert, for a compositor that accepts the
\* connection or not and advertises some globals.
SurfaceStart(p) ==
  /\ pid_unused(p)
  /\ \E c \in LoopShows : stacks(c) /\ spawn(p, c)
  /\ \E connects \in BOOLEAN, globals \in SUBSET GlobalNames, output_scale \in ConfigScales :
       surface' = [surface EXCEPT ![p] =
                     [NoSurface EXCEPT !.connects = connects, !.globals = globals,
                                       !.output_scale = output_scale,
                                       !.width = measured.width,
                                       !.height = measured.height,
                                       !.scale = max1(output_scale)]]
  /\ pc' = [pc EXCEPT ![p] = "connect"]
  /\ UNCHANGED <<file, lock, now, st, ret, loopvars, should_close, result, issued, pin,
                 pout, tmp, keep_entries, signalled>>

\* Connection::connect_to_env and registry_queue_init.
SurfaceConnect(p) ==
  /\ pc[p] = "connect"
  /\ surface[p].connects
  /\ pc' = [pc EXCEPT ![p] = "bind"]
  /\ UNCHANGED <<surface, result, surfaceframe>>

SurfaceConnectErr(p) ==
  /\ pc[p] = "connect"
  /\ ~surface[p].connects
  /\ result' = failed("connect to wayland")
  /\ process_exit(p)
  /\ UNCHANGED <<file, now, surface, issued, pin, pout, tmp, keep_entries, signalled>>

\* The three binds, the seat, create_surface and get_layer_surface; the first
\* roundtrip is under way.
SurfaceBind(p) ==
  /\ pc[p] = "bind"
  /\ required_globals \subseteq surface[p].globals
  /\ surface' = [surface EXCEPT ![p].seat = "wl_seat" \in surface[p].globals]
  /\ pc' = [pc EXCEPT ![p] = "sync"]
  /\ UNCHANGED <<result, surfaceframe>>

SurfaceBindErr(p) ==
  /\ pc[p] = "bind"
  /\ ~(required_globals \subseteq surface[p].globals)
  /\ result' = failed("bind")
  /\ process_exit(p)
  /\ UNCHANGED <<file, now, surface, issued, pin, pout, tmp, keep_entries, signalled>>

\* An event is dispatched to its handler, in a roundtrip or in the loop. A Configure
\* comes only for a surface that has been committed.
SurfaceScale(p) ==
  /\ pc[p] \in {"sync", "configure", "loop"}
  /\ \E id \in OutputIds, factor \in Factors :
       surface' = [surface EXCEPT ![p] = on_scale(@, id, factor)]
  /\ UNCHANGED <<pc, result, surfaceframe>>

SurfaceEnter(p) ==
  /\ pc[p] \in {"configure", "loop"}
  /\ \E id \in OutputIds : surface' = [surface EXCEPT ![p] = on_enter(@, id)]
  /\ UNCHANGED <<pc, result, surfaceframe>>

SurfaceConfigure(p, serial, width, height) ==
  /\ pc[p] \in {"configure", "loop"}
  /\ Len(surface[p].configures) < MaxSerial
  /\ surface' = [surface EXCEPT ![p] = on_configure(@, serial, width, height)]
  /\ UNCHANGED <<pc, result, surfaceframe>>

\* The first roundtrip returns: if state.scale <= 0 { state.scale = 1 }.
SurfaceSync(p) ==
  /\ pc[p] = "sync"
  /\ surface' = [surface EXCEPT ![p].scale = IF @ <= 0 THEN 1 ELSE @]
  /\ pc' = [pc EXCEPT ![p] = "roundtrip"]
  /\ UNCHANGED <<result, surfaceframe>>

\* The anchor, the margin and the size are set; surface.commit, flush; the second
\* roundtrip is under way.
SurfaceCommit(p) ==
  /\ pc[p] = "display"
  /\ LET base == position_to_anchor(cmd[p].position).margins
     IN  surface' = [surface EXCEPT
                       ![p].margins = apply_stack_offset(base, cmd[p].position, ret[p]),
                       ![p].requests = @ \o first_commit_requests,
                       ![p].commits = @ + 1]
  /\ pc' = [pc EXCEPT ![p] = "configure"]
  /\ UNCHANGED <<result, surfaceframe>>

\* The second roundtrip returns: the size falls back, the scale is fixed, the buffer
\* is created, drawn, attached and committed, and the loop starts.
SurfaceAttach(p) ==
  /\ pc[p] = "configure"
  /\ LET s == surface[p]
         fallback == s.width <= 0 \/ s.height <= 0
         width == IF fallback THEN measured.width ELSE s.width
         height == IF fallback THEN measured.height ELSE s.height
         output_scale == IF s.output_scale <= 0 THEN s.scale ELSE s.output_scale
         scale == max1(output_scale)
     IN  surface' = [surface EXCEPT ![p] =
                       [s EXCEPT !.width = width, !.height = height,
                                 !.output_scale = output_scale, !.scale = scale,
                                 !.pixel_width = width * scale,
                                 !.pixel_height = height * scale,
                                 !.requests = @ \o buffer_requests,
                                 !.damage = [width |-> width * scale,
                                             height |-> height * scale],
                                 !.attached = TRUE, !.commits = @ + 1]]
  /\ enter_loop(p, ret[p], cmd[p].timeout_ms)
  /\ ret' = [ret EXCEPT ![p] = 0]
  /\ cmd' = [cmd EXCEPT ![p] = NoCmd]
  /\ UNCHANGED <<file, lock, procs, now, st, guard, closed, should_close, result, issued,
                 pin, pout, tmp, keep_entries, signalled>>

SurfaceStep(p) ==
  \/ SurfaceStart(p) \/ SurfaceConnect(p) \/ SurfaceConnectErr(p)
  \/ SurfaceBind(p) \/ SurfaceBindErr(p)
  \/ SurfaceScale(p) \/ SurfaceEnter(p)
  \/ \E serial \in 1..MaxSerial, width \in Proposed, height \in Proposed :
       SurfaceConfigure(p, serial, width, height)
  \/ SurfaceSync(p)
  \/ AlertReserve(p) \/ AlertReserveLockErr(p) \/ AlertReserveSave(p)
  \/ AlertReserveSaveErr(p)
  \/ SurfaceCommit(p) \/ SurfaceAttach(p)
  \/ DropNone(p) \/ DropLockErr(p) \/ DropLoad(p) \/ DropSave(p) \/ DropSaveErr(p)

\* One instance and its compositor.
NextSurface == \E p \in {1} : SurfaceStep(p)

SpecSurface == Init /\ [][NextSurface]_vars

\* ======================================================== properties
\* The entries of the ledger file as load_state reads them.
Ledger == load_state(file).entries

InLedger(id) == \E i \in DOMAIN Ledger : Ledger[i].id = id

\* Sum of height + gap over the entries of `entries` at the indices I.
RECURSIVE SumAt(_, _)
SumAt(entries, I) ==
  IF I = {} THEN 0
  ELSE LET i == CHOOSE j \in I : TRUE
       IN  entries[i].height + entries[i].gap + SumAt(entries, I \ {i})

Holds(entries, e) == \E i \in DOMAIN entries : entries[i] = e

Reserved(p) == pc[p] = "reserve_save" /\ pc'[p] = "loop" /\ guard'[p] # NoGuard

Showing(p) == pc[p] = "loop" /\ guard[p] # NoGuard

\* ---- C1
\* C1: the offset a reservation returns is the sum of height + gap over the
\* entries of its own position class that the ledger holds when it returns (the
\* loaded entries that outlived the pruning), its own entry apart; entries of
\* another class add nothing.
C1_ReserveOffset ==
  [][\A p \in Instances :
       Reserved(p) =>
         LET after == load_state(file').entries
             same == {i \in DOMAIN after : /\ after[i].position = guard'[p].position
                                           /\ after[i].id # guard'[p].id}
         IN  last_offset'[p] = SumAt(after, same)]_vars

\* An instance holds a lease at an offset above 0 while the ledger also holds an
\* entry of the other class.
C1_Witness ==
  \E p \in Instances :
    /\ Showing(p) /\ InLedger(guard[p].id) /\ last_offset[p] > 0
    /\ \E i \in DOMAIN Ledger : Ledger[i].position # guard[p].position

\* ---- C2
\* The entry of the lease a process holds, and the offset the ledger gives it now.
EntryOf(id) == Ledger[CHOOSE i \in DOMAIN Ledger : Ledger[i].id = id]

LedgerOffset(id) ==
  SumAt(Ledger, {i \in DOMAIN Ledger : /\ Ledger[i].position = EntryOf(id).position
                                        /\ Ledger[i].id < id})

SameClassLive(p, q) ==
  /\ p # q /\ Showing(p) /\ Showing(q)
  /\ guard[p].position = guard[q].position
  /\ InLedger(guard[p].id) /\ InLedger(guard[q].id)

InSpan(p) == pc[p] \in {"reserve_save", "drop_save", "list_save", "clear_save"}

Mutex == \A p, q \in Procs : InSpan(p) /\ InSpan(q) => p = q /\ lock = p

\* C3: at most one process is between the load and the save of a ledger
\* operation, and it holds the lock; the file changes only in the save of the
\* process that holds the lock and has held it since its load; while a process is
\* between its load and its save no other process changes the file.
C3_MutualExclusion ==
  [][/\ Mutex /\ Mutex'
     /\ file' # file => \E p \in Procs : InSpan(p) /\ lock = p /\ ~InSpan(p)'
     /\ \A p \in Procs : InSpan(p) /\ InSpan(p)' => file' = file]_vars

\* A process is between its load and its save while another waits for the lock.
C3_Witness ==
  \E p, q \in Procs :
    /\ p # q /\ InSpan(p) /\ lock = p
    /\ Showing(q)

\* ---- C4
Position(entries, e) == CHOOSE i \in DOMAIN entries : entries[i] = e

\* `after` is `before` without the entries of id `id`: nothing else is removed,
\* nothing is added or altered, the order and next_id are kept.
RemovedOnly(before, after, id) ==
  /\ after.next_id = before.next_id
  /\ \A i \in DOMAIN before.entries :
       before.entries[i].id # id => Holds(after.entries, before.entries[i])
  /\ \A i \in DOMAIN after.entries :
       Holds(before.entries, after.entries[i]) /\ after.entries[i].id # id
  /\ \A i, j \in DOMAIN after.entries :
       i < j => Position(before.entries, after.entries[i])
                  < Position(before.entries, after.entries[j])

\* C4: the release of a lease takes out of the ledger the entries with the
\* lease's id and nothing else (order and next_id kept); with no such entry in the
\* ledger the content is unchanged. The release either writes this or, when its
\* save fails, writes nothing.
C4_ReleaseExact ==
  [][\A p \in Instances :
       /\ pc[p] = "loop" /\ pc'[p] = "drop_save" =>
            /\ RemovedOnly(load_state(file), st'[p], guard[p].id)
            /\ ~InLedger(guard[p].id) => st'[p] = load_state(file)
       /\ pc[p] = "drop_save" /\ pc'[p] # "drop_save" =>
            file' = file \/ file' = save_state(st[p])]_vars

\* A release is about to save: its entry and another one of the same class are in
\* the ledger, and the loaded state has lost the lease's entry only.
C4_Witness ==
  \E p \in Instances :
    /\ pc[p] = "drop_save" /\ InLedger(guard[p].id)
    /\ Len(st[p].entries) = Len(Ledger) - 1
    /\ \E i \in DOMAIN st[p].entries : st[p].entries[i].position = guard[p].position

\* ---- C5
\* C5: every reservation receives an id greater than every id handed out before
\* it, whatever the ledger file held when it was loaded (absent, empty or
\* malformed included), so no two leases carry the same id.
C5_IdsNeverReused ==
  [][\A p \in Instances : Reserved(p) => \A i \in issued : guard'[p].id > i]_vars

\* ---- C6
Expired(entry) == entry.expires_at # 0 /\ entry.expires_at <= now

\* C6: an entry of the ledger file is missing after a step only if its expires_at
\* is non-zero and has passed, or its owner is not alive, or the step is the save of
\* the release of the lease with its id, or the step is the save of a clear whose
\* selector matches it; every other step of every process leaves it in the file.
C6_RemovalReasons ==
  [][\A i \in DOMAIN Ledger :
       ~Holds(load_state(file').entries, Ledger[i]) =>
         \/ Expired(Ledger[i])
         \/ ~process_alive(Ledger[i].pid, procs)
         \/ \E p \in Instances : pc[p] = "drop_save" /\ guard[p].id = Ledger[i].id
         \/ pc[Ctl] = "clear_save" /\ clear_matches(Ledger[i], cmd[Ctl].selector)]_vars

\* A list command is about to save a ledger from which its pruning has taken some
\* entries and kept others.
C6_Witness ==
  /\ pc[Ctl] = "list_save"
  /\ Len(st[Ctl].entries) < ret[Ctl]
  /\ Len(st[Ctl].entries) > 0

\* ---- C7
\* The poller of p can run now.
PollEnabled(p) == Showing(p) /\ loop_continues(p) /\ lock_free(p)

\* C7: the offset the poller computes for the held lease is the sum of
\* height + gap over the entries of the lease's class that are in the ledger and
\* have an id below the lease's id; entries with a higher id add nothing.
C7_PollerSumsEarlier ==
  \A p \in Instances :
    PollEnabled(p) =>
      stack_offset_for_id(load_state(file), guard[p])
        = SumAt(Ledger, {i \in DOMAIN Ledger : /\ Ledger[i].position = guard[p].position
                                               /\ Ledger[i].id < guard[p].id})

\* ---- C8
Matches(state, selector) ==
  Cardinality({i \in DOMAIN state.entries : clear_matches(state.entries[i], selector)})

\* C8: reserve, list, clear and the poller each read the ledger pruned at the
\* current time: the reservation's offset, the listing, the clear count and the
\* poller's offset are those of the pruned ledger, so an expired or dead-owner
\* entry adds to none of them.
C8_PruneBeforeRead ==
  [][/\ \A p \in Instances :
          pc[p] = "none" /\ pc'[p] = "reserve_save" =>
            ret'[p] = reserve_offset(prune_entries(load_state(file), now, procs'),
                                     position_key(cmd'[p].position))
     /\ pc[Ctl] = "none" /\ pc'[Ctl] = "list_save" =>
          st'[Ctl] = prune_entries(load_state(file), now, procs')
     /\ pc[Ctl] = "none" /\ pc'[Ctl] = "clear_save" =>
          ret'[Ctl] = Matches(prune_entries(load_state(file), now, procs'),
                              cmd'[Ctl].selector)
     /\ \A p \in Instances :
          PollEnabled(p) =>
            stack_offset_for_id(load_state(file), guard[p])
              = stack_offset_for_id(prune_entries(load_state(file), now, procs),
                                    guard[p])]_vars

\* ---- C9
\* `after` holds entries of `before` only, unchanged and in the order of `before`.
KeptInOrder(before, after) ==
  /\ \A i \in DOMAIN after : Holds(before, after[i])
  /\ \A i, j \in DOMAIN after : i < j => Position(before, after[i]) < Position(before, after[j])

\* C9: pruning a pruned ledger again, at the same time and with the same live
\* processes, changes nothing; the entries that outlive a pruning are entries of
\* the input, unchanged and in their order, and next_id is the input's.
C9_PruneIdempotent ==
  /\ pout.n = 2 => pout.twice = pout.once
  /\ pout.n >= 1 => /\ pout.once.next_id = pin.next_id
                    /\ KeptInOrder(pin.entries, pout.once.entries)

\* A ledger has been pruned twice; the first pruning removed an entry and kept at
\* least two.
C9_Witness ==
  /\ pout.n = 2
  /\ Len(pout.once.entries) < Len(pin.entries)
  /\ Len(pout.once.entries) >= 2

\* ---- C10
\* C10: after pruning at `now` an entry with a non-zero expires_at <= now is
\* absent; an entry of a live owner with expires_at > now or expires_at = 0 is
\* present, so time alone never removes an entry with expires_at = 0.
C10_TimePruning ==
  pout.n >= 1 =>
    \A i \in DOMAIN pin.entries :
      LET entry == pin.entries[i]
      IN  /\ entry.expires_at # 0 /\ entry.expires_at <= now =>
               ~Holds(pout.once.entries, entry)
          /\ (entry.expires_at = 0 \/ entry.expires_at > now)
               /\ process_alive(entry.pid, procs) => Holds(pout.once.entries, entry)

HasExpiry(e) == \E i \in DOMAIN pin.entries : pin.entries[i].expires_at = e

\* A ledger with entries of expires_at now - 1, now, now + 1 and 0 has been pruned.
C10_Witness ==
  /\ pout.n >= 1
  /\ now - 1 > 0
  /\ HasExpiry(now - 1) /\ HasExpiry(now) /\ HasExpiry(now + 1) /\ HasExpiry(0)
  /\ Len(pout.once.entries) >= 2

\* ---- C11
Unexpired(entry) == not_expired(entry, now)

\* C11: after pruning, an unexpired entry is absent exactly when the probe of its
\* owner pid reports ESRCH: an entry with owner pid 0, or whose owner's probe
\* succeeds or fails with EPERM, is present.
C11_LivenessPruning ==
  pout.n >= 1 =>
    \A i \in DOMAIN pin.entries :
      LET entry == pin.entries[i]
      IN  Unexpired(entry) =>
            /\ ~Holds(pout.once.entries, entry)
                 <=> entry.pid # 0 /\ probe(entry.pid, procs) = "ESRCH"
            /\ entry.pid = 0 \/ probe(entry.pid, procs) \in {"ok", "EPERM"}
                 => Holds(pout.once.entries, entry)

HasOwner(pid, outcome) ==
  \E i \in DOMAIN pin.entries :
    /\ pin.entries[i].pid = pid /\ Unexpired(pin.entries[i])
    /\ probe(pid, procs) = outcome

\* A ledger with unexpired entries of a live owner, of a foreign owner and of an
\* owner that is gone has been pruned.
C11_Witness ==
  /\ pout.n >= 1
  /\ HasOwner(1, "ok") /\ HasOwner(4, "EPERM") /\ HasOwner(2, "ESRCH")
  /\ Len(pout.once.entries) = 2

\* ---- C12
\* `after` holds, in the order of `before`, exactly the entries of `before` that are
\* neither expired nor owned by a process that is gone.
ExactlyLive(before, after, live) ==
  /\ KeptInOrder(before, after)
  /\ \A i \in DOMAIN before :
       Holds(after, before[i])
         <=> Unexpired(before[i]) /\ process_alive(before[i].pid, live)

\* C12: list returns exactly the entries of the stored ledger that are neither
\* expired nor owned by a dead process, in stored order, and when it returns the
\* ledger file holds exactly the entries it returns.
C12_ListActive ==
  [][/\ pc[Ctl] = "none" /\ pc'[Ctl] = "list_save" =>
          ExactlyLive(Ledger, st'[Ctl].entries, procs')
     /\ ListSave(Ctl) => load_state(file').entries = st[Ctl].entries]_vars

\* A list command has pruned the stored ledger and is about to return two entries.
C12_Witness ==
  /\ pc[Ctl] = "list_save"
  /\ list_changed(st[Ctl], ret[Ctl])
  /\ Len(st[Ctl].entries) >= 2

\* ---- C13
\* The selector matches the entry: id equal, or name present and equal, or class
\* present and equal.
SelectorMatches(entry, selector) ==
  \/ selector.kind = "id" /\ entry.id = selector.id
  \/ selector.kind = "name" /\ entry.name # "none" /\ entry.name = selector.text
  \/ selector.kind = "class" /\ entry.class # "none" /\ entry.class = selector.text

Live(entry, live) == Unexpired(entry) /\ process_alive(entry.pid, live)

\* C13: clear keeps, in order, exactly the entries of the stored ledger that
\* outlive the pruning and do not match the selector, returns the number of
\* entries that outlive the pruning and match it (an entry the pruning removed is
\* not counted), leaves next_id alone and writes the result to the file.
C13_ClearRemovesMatches ==
  [][/\ pc[Ctl] = "none" /\ pc'[Ctl] = "clear_save" =>
          LET selector == cmd'[Ctl].selector
              kept == st'[Ctl].entries
          IN  /\ KeptInOrder(Ledger, kept)
              /\ \A i \in DOMAIN Ledger :
                   Holds(kept, Ledger[i])
                     <=> Live(Ledger[i], procs') /\ ~SelectorMatches(Ledger[i], selector)
              /\ ret'[Ctl] = Cardinality({i \in DOMAIN Ledger :
                                            /\ Live(Ledger[i], procs')
                                            /\ SelectorMatches(Ledger[i], selector)})
              /\ st'[Ctl].next_id = load_state(file).next_id
     /\ ClearSave(Ctl) => load_state(file') = st[Ctl]]_vars

\* A clear is about to save: the stored ledger holds a matching entry that the
\* pruning removed (not counted), a matching entry it counted and an entry it keeps.
C13_Witness ==
  LET selector == cmd[Ctl].selector
      gone == {i \in DOMAIN Ledger : ~Live(Ledger[i], procs)}
  IN  /\ pc[Ctl] = "clear_save"
      /\ ret[Ctl] >= 1
      /\ Len(st[Ctl].entries) >= 1
      /\ \E i \in gone : SelectorMatches(Ledger[i], selector)
      /\ ret[Ctl] + Len(st[Ctl].entries) + Cardinality(gone) = Len(Ledger)

\* ---- C14
\* C14: a clear that returns Ok has called send_sigterm for every entry of the
\* pruned ledger that matches its selector, and every owner with a pid other than 0
\* was sent the signal: the kill succeeded or failed with ESRCH. A kill that
\* fails with ESRCH does not end the clear: the entry is counted and the loop goes
\* on; the file then holds no matching entry and the count is that of the matches.
C14_SignalBestEffort ==
  [][/\ ClearFinish(Ctl) =>
          /\ \A i \in DOMAIN pin.entries :
               SelectorMatches(pin.entries[i], cmd[Ctl].selector) =>
                 \E s \in signalled :
                   /\ s.id = pin.entries[i].id /\ s.pid = pin.entries[i].pid
                   /\ s.pid # 0 => s.rc \in {"ok", "ESRCH"}
          /\ \A i \in DOMAIN load_state(file').entries :
               ~SelectorMatches(load_state(file').entries[i], cmd[Ctl].selector)
          /\ result' = [op |-> "clear", ok |-> TRUE, value |-> Cardinality(signalled)]
     /\ \A q \in Instances :
          /\ ClearVisit(Ctl)
          /\ Head(st[Ctl].entries).pid = q /\ q \notin procs
          /\ SelectorMatches(Head(st[Ctl].entries), cmd[Ctl].selector)
          => /\ pc'[Ctl] = "clear_loop"
             /\ ret'[Ctl] = ret[Ctl] + 1
             /\ [id |-> Head(st[Ctl].entries).id, pid |-> q, rc |-> "ESRCH"] \in signalled'
     /\ \A q \in Instances :
          /\ ClearVisit(Ctl)
          /\ Head(st[Ctl].entries).pid = q /\ q \in procs
          /\ SelectorMatches(Head(st[Ctl].entries), cmd[Ctl].selector)
          => should_close'[q]]_vars

\* A clear has returned Ok with a count of two or more after one of its signals
\* reached its owner and another failed with ESRCH; the file holds no match.
C14_Witness ==
  /\ pc[Ctl] = "none"
  /\ result = [op |-> "clear", ok |-> TRUE, value |-> Cardinality(signalled)]
  /\ \E s \in signalled : s.rc = "ESRCH"
  /\ \E s \in signalled : s.rc = "ok"
  /\ \A i \in DOMAIN Ledger : \A s \in signalled : Ledger[i].id # s.id

\* ---- C15
\* The file parses to a ledger: it is a text whose entries have every required key
\* and the right type under every key.
WellFormed(f) == f.kind = "json" \/ (f.kind = "text" /\ doc_valid(f.data))

\* C15: loading never fails. From a ledger file that is absent, unreadable, empty or
\* does not parse, load_state returns the empty ledger and no error, and the next
\* successful save puts a well-formed ledger, the one saved, at the ledger path.
C15_LoadNeverFails ==
  [][\A p \in Instances :
       /\ StoreLoad(p) =>
            /\ result'.ok
            /\ ~WellFormed(file) => st'[p] = default
       /\ SaveRename(p) =>
            /\ WellFormed(file')
            /\ load_state(file') = st[p]]_vars

\* An operation has loaded the empty ledger from a text that does not parse and its
\* save has the replacement ready.
C15_Witness ==
  \E p \in Instances :
    /\ pc[p] = "store_written"
    /\ file.kind = "text"
    /\ ~WellFormed(file)
    /\ WellFormed(tmp)

\* ---- C16
\* C16: saving a ledger and loading it again returns the same ledger, every field of
\* every entry and next_id included; and saving what was loaded from a well-formed
\* file leaves a file that loads to the same ledger.
C16_RoundTrip ==
  [][\A p \in Instances :
       /\ StoreLoad(p) =>
            \A state \in StoreLedgers :
              (file.kind = "text" /\ file.data = to_vec(state)) => st'[p] = state
       /\ (SaveRename(p) /\ WellFormed(file) /\ st[p] = load_state(file)) =>
            load_state(file') = load_state(file)]_vars

\* A ledger of MaxStore entries, one of them with every field set and one with every
\* defaulted field at its default, has been loaded from its saved text.
C16_Witness ==
  \E p \in Instances :
    /\ pc[p] = "store_loaded"
    /\ file.kind = "text"
    /\ file.data = to_vec(st[p])
    /\ Len(st[p].entries) = MaxStore
    /\ \E i, j \in DOMAIN st[p].entries :
         st[p].entries[i].name = "water" /\ st[p].entries[j].name = "none"

\* ---- C17
same_file(f, g) == f.kind = g.kind /\ (f.kind = "text" => f.data = g.data)

\* C17: a save replaces the ledger file atomically. No step leaves a partly written
\* ledger file; the file changes only by the rename of a save, to the whole text of
\* the saved ledger; and a save that fails leaves the file as it was.
C17_AtomicReplace ==
  [][/\ file'.kind # "torn"
     /\ \A p \in Instances : SaveFail(p) => same_file(file', file)
     /\ ~same_file(file', file) =>
          \E p \in Instances :
            SaveRename(p) /\ same_file(file', text(to_vec(st[p])))]_vars

\* A save is half way through writing while the ledger file still holds the whole
\* text of another ledger.
C17_Witness ==
  \E p \in Instances :
    /\ pc[p] = "store_writing"
    /\ tmp.kind = "torn"
    /\ file.kind = "text"
    /\ WellFormed(file)
    /\ load_state(file) # st[p]

\* ---- C18
\* The process waits on the compositor socket (roundtrip, the poll of
\* dispatch_with_timeout) or is about to wait for the flock in the drop of its guard.
Blocking(p) == pc[p] \in {"roundtrip", "display", "loop", "drop"}

\* C18: the ledger lock is never held across a wait that can block indefinitely: a
\* process that is in a socket wait does not hold the lock.
C18_NoLockAcrossWait == \A p \in Instances : Blocking(p) => lock # p

\* An instance with a slot waits on the socket while its peer holds the lock for a
\* poll.
C18_Witness ==
  \E p, q \in Instances :
    /\ p # q
    /\ pc[p] = "loop"
    /\ guard[p] # NoGuard
    /\ pc[q] = "poll_read"
    /\ lock = q

\* ---- C20
\* C20: an instance that has reserved a slot leaves run_alert only through the drop
\* of its guard, whether the loop ended or an error was propagated; and when the
\* drop's lock, load and save succeed, the ledger has no entry with the guard's id.
C20_ReleaseOnEveryExit ==
  [][\A p \in Instances :
       /\ (pc[p] # "none" /\ pc'[p] = "none" /\ guard[p] # NoGuard) =>
            AlertDropLockErr(p) \/ AlertDropSave(p) \/ AlertDropSaveErr(p)
       /\ AlertDropSave(p) =>
            \A i \in DOMAIN load_state(file').entries :
              load_state(file').entries[i].id # guard[p].id]_vars

\* An error of the display stage has been propagated by an instance whose slot is in
\* the ledger, and the drop of its guard is next.
C20_Witness ==
  \E p \in Instances :
    /\ pc[p] = "drop"
    /\ guard[p] # NoGuard
    /\ result = failed("display")
    /\ InLedger(guard[p].id)
    /\ Len(Ledger) = MaxAlert

\* ---- C19
\* C19: every ledger operation releases the lock on every exit path, errors and the
\* end of the process included: the lock is held only by a live process that is
\* inside a ledger operation; a process stops waiting for the lock only by getting
\* it, by an error of lock_state or by being terminated; and, under fair scheduling,
\* every process that waits for the lock gets it unless one of the two ends its wait.
C19_LockReleased ==
  /\ [](\A p \in Procs : lock = p => (pc[p] \in Held /\ p \in procs))
  /\ [][\A p \in Procs :
          (pc[p] \in Waits /\ pc'[p] \notin Waits) =>
             (LockTake(p) \/ LockErr(p) \/ Kill(p))]_vars
  /\ \A p \in Procs : (pc[p] \in Waits) ~> (lock = p \/ pc[p] \notin Waits \cup Held)

\* Both peers wait for the lock while a control process holds it inside clear.
C19_Witness ==
  /\ lock = Ctl
  /\ pc[Ctl] = "clear_save"
  /\ pc[1] = "poll_lock"
  /\ pc[2] = "drop_lock"

\* ---- C21
\* C21: the loop starts another turn only when, at the top of the turn, the deadline
\* is ahead, state.closed is false and SHOULD_CLOSE is false; when one of the three
\* fails there the loop is left for the drop of the guard; dispatch is reached from
\* the top of a turn only and the poller from dispatch only; and after the loop
\* neither runs again.
C21_LoopExitCondition ==
  [][\A p \in Instances :
       /\ (pc[p] = "loop" /\ pc'[p] = "dispatch") =>
            (now < deadline[p] /\ ~closed[p] /\ ~should_close[p])
       /\ (pc[p] = "loop" /\ pc'[p] # "loop"
             /\ ~(now < deadline[p] /\ ~closed[p] /\ ~should_close[p])) =>
            pc'[p] = "drop"
       /\ (pc'[p] = "dispatch" /\ pc[p] # "dispatch") => pc[p] = "loop"
       /\ (pc'[p] = "poll_lock" /\ pc[p] # "poll_lock") => pc[p] = "dispatch"
       /\ pc[p] \in {"drop", "drop_save"} => pc'[p] \in {"drop", "drop_save", "none"}]_vars

\* An instance with a slot is at the top of a turn with state.closed set by an event
\* of the turn before, its deadline still ahead.
C21_Witness ==
  \E p \in Instances :
    /\ pc[p] = "loop"
    /\ closed[p]
    /\ ~should_close[p]
    /\ now < deadline[p]
    /\ guard[p] # NoGuard

\* ---- C22
\* C22: a notification with timeout 0 makes no reservation: it leaves the
\* reservation stage without the lock, with the ledger file as it was (no entry, no
\* id), offset 0 and no guard; an instance without a guard is shown at offset 0 and
\* never runs the poller, which runs only in an instance that has a guard.
C22_ZeroTimeout ==
  /\ [](\A p \in Instances :
          /\ pc[p] \in {"poll_lock", "poll_read"} => guard[p] # NoGuard
          /\ (cmd[p].op = "show" /\ cmd[p].timeout_ms = 0) =>
               (guard[p] = NoGuard /\ lock # p /\ ret[p] = 0))
  /\ [][\A p \in Instances :
          /\ (pc[p] = "roundtrip" /\ cmd[p].timeout_ms = 0 /\ pc'[p] # "roundtrip") =>
               (pc'[p] \in {"display", "drop"} /\ file' = file /\ guard'[p] = NoGuard)
          /\ (guard'[p] # guard[p]) => (AlertReserveSave(p) \/ pc'[p] = "none")
          /\ (LoopDraw(p) /\ guard[p] = NoGuard) => last_offset'[p] = 0]_vars

\* A notification with timeout 0 is about to be drawn, without a guard and at
\* offset 0, while the ledger holds the entry of its peer in the same position.
C22_Witness ==
  \E p \in Instances :
    /\ pc[p] = "draw"
    /\ cmd[p].timeout_ms = 0
    /\ guard[p] = NoGuard
    /\ ret[p] = 0
    /\ \E i \in DOMAIN Ledger : Ledger[i].position = position_key(cmd[p].position)

\* ---- C23
\* C23: when reserve_stack_slot fails, on the lock or on the save, run_alert goes on:
\* the instance is alive at its display stage with offset 0 and no guard, the
\* ledger file is as it was, the notification is drawn at offset 0, and an instance
\* without a guard never takes the lock again, for the poller or for a release.
C23_ReserveFailure ==
  /\ [](\A p \in Instances :
          guard[p] = NoGuard => pc[p] \notin {"poll_lock", "poll_read", "drop_save"})
  /\ [][\A p \in Instances :
          /\ (LoopReserveLockErr(p) \/ AlertReserveSaveErr(p)) =>
               /\ pc'[p] = "display"
               /\ p \in procs'
               /\ file' = file
               /\ guard'[p] = NoGuard
               /\ ret'[p] = 0
               /\ lock' # p
          /\ (LoopDraw(p) /\ guard[p] = NoGuard /\ stacks(cmd[p])) =>
               (last_offset'[p] = 0 /\ file' = file)]_vars

\* The reservation of a notification with a timeout has failed and it is about to be
\* drawn at offset 0, while the ledger holds an entry in its position.
C23_Witness ==
  \E p \in Instances :
    /\ pc[p] = "draw"
    /\ cmd[p].timeout_ms > 0
    /\ guard[p] = NoGuard
    /\ ret[p] = 0
    /\ \E i \in DOMAIN Ledger : Ledger[i].position = position_key(cmd[p].position)

\* ---- C24
\* The instance has returned an error and nothing of it is left: no surface was
\* committed, no buffer attached, the ledger file and the lock are as they were.
Aborted(p) ==
  /\ pc'[p] = "none"
  /\ p \notin procs'
  /\ ~result'.ok
  /\ surface'[p].commits = 0
  /\ ~surface'[p].attached
  /\ file' = file
  /\ lock' = lock
  /\ guard[p] = NoGuard

\* C24: when the connection to the compositor fails, or wl_compositor, wl_shm or
\* zwlr_layer_shell_v1 cannot be bound, run_alert returns the error at once: no
\* retry, no surface committed, no ledger slot reserved; when the three are bound
\* the instance goes on, with or without a seat; and nothing is committed or
\* reserved before the setup is over.
C24_FatalSetup ==
  /\ [](\A p \in Instances :
          pc[p] \in {"connect", "bind"} =>
            (surface[p].commits = 0 /\ guard[p] = NoGuard /\ lock # p))
  /\ [][\A p \in Instances :
          /\ (pc[p] = "connect" /\ pc'[p] # "connect") =>
               IF surface[p].connects THEN pc'[p] = "bind" ELSE Aborted(p)
          /\ (pc[p] = "bind" /\ pc'[p] # "bind") =>
               IF {"wl_compositor", "wl_shm", "zwlr_layer_shell_v1"} \subseteq surface[p].globals
               THEN pc'[p] = "sync" /\ p \in procs'
               ELSE Aborted(p)]_vars

\* The instance has bound the three globals of a compositor that has no seat and
\* goes on.
C24_Witness ==
  \E p \in Instances :
    /\ pc[p] = "sync"
    /\ "wl_seat" \notin surface[p].globals
    /\ ~surface[p].seat

\* ---- C25
\* C25: every Configure event is acknowledged with its own serial, in the handler
\* and before its size is applied; a proposed width or height that is <= 0 leaves
\* the local one, a positive one replaces it; and the rendered buffer is attached
\* only after a Configure has been acknowledged.
C25_ConfigureHandshake ==
  /\ [](\A p \in Instances :
          /\ surface[p].acks = surface[p].configures
          /\ surface[p].attached => Len(surface[p].acks) > 0)
  /\ [][\A p \in Instances :
          \A serial \in 1..MaxSerial, width \in Proposed, height \in Proposed :
            SurfaceConfigure(p, serial, width, height) =>
              /\ surface'[p].acks = Append(surface[p].acks, serial)
              /\ surface'[p].width = IF width > 0 THEN width ELSE surface[p].width
              /\ surface'[p].height = IF height > 0 THEN height ELSE surface[p].height]_vars

\* ---- C26
\* The factor the compositor last gave for the output, if any.
FactorOf(s, id) == (CHOOSE o \in s.outputs : o[1] = id)[2]

AtLeastOne(n) == IF n > 0 THEN n ELSE 1

\* C26: state.scale is at least 1 in every state: cfg.output_scale at the start, the
\* factor of a Scale event and the factor of the output of an Enter event are
\* replaced by 1 when they are not positive; and the buffer has the logical size
\* times the scale, which is at least 1.
C26_ScaleAtLeastOne ==
  /\ [](\A p \in Instances : surface[p].scale >= 1)
  /\ [][\A p \in Instances :
          /\ SurfaceStart(p) =>
               surface'[p].scale = AtLeastOne(surface'[p].output_scale)
          /\ SurfaceScale(p) =>
               \E id \in OutputIds :
                 surface'[p].scale = AtLeastOne(FactorOf(surface'[p], id))
          /\ (SurfaceEnter(p) /\ surface'[p] # surface[p]) =>
               \E id \in OutputIds :
                 surface'[p].scale = AtLeastOne(FactorOf(surface[p], id))
          /\ SurfaceAttach(p) =>
               /\ surface'[p].scale >= 1
               /\ surface'[p].pixel_width = surface'[p].width * surface'[p].scale
               /\ surface'[p].pixel_height = surface'[p].height * surface'[p].scale
               /\ surface'[p].pixel_width >= surface'[p].width]_vars

\* The output has announced the factor 0, the configuration gives no scale, and the
\* buffer has been attached at scale 1.
C26_Witness ==
  \E p \in Instances :
    /\ surface[p].attached
    /\ <<1, 0>> \in surface[p].outputs
    /\ surface[p].scale = 1
    /\ surface[p].pixel_width = surface[p].width
    /\ pc[p] = "loop"

\* ------------------------------------------------ the three reservations
\* Instances that are started with the command lines of the worked example, on an
\* empty ledger: their owners stay alive and their timeouts end after the clock
\* has stopped, so that the pruning of reserve_stack_slot removes nothing.
MaxScenario == 3   \* no instance is started once next_id has passed this

ScenarioShows == {show("top", 50, 10, 5, "water", "reminder"),
                  show("top", 30, 5, 5, "none", "reminder"),
                  show("bottom", 50, 10, 5, "none", "reminder")}

\* reserve_stack_slot up to the save: lock_state, load_state, prune_entries, the
\* offset and the push.
ScenarioReserve(p) ==
  /\ p \in Instances
  /\ pid_unused(p)
  /\ load_state(file).next_id <= MaxScenario
  /\ lock_free(p)
  /\ lock' = p
  /\ \E c \in ScenarioShows :
       /\ spawn(p, c)
       /\ LET state == prune_entries(load_state(file), now, procs')
          IN  /\ ret' = [ret EXCEPT ![p] = reserve_offset(state, position_key(c.position))]
              /\ st' = [st EXCEPT ![p] = reserve_push(state, p, c, now)]
  /\ pc' = [pc EXCEPT ![p] = "reserve_save"]
  /\ UNCHANGED <<file, now, loopvars, should_close, issued, pure>>

ScenarioStep(p) ==
  \/ ScenarioReserve(p) \/ ReserveSave(p)
  \/ PollLoad(p)
  \/ DropLoad(p) \/ DropSave(p)

NextScenario == (\E p \in Instances : ScenarioStep(p)) \/ Tick

SpecScenario == Init /\ [][NextScenario]_vars

\* ---- C27
\* What the example reads of a ledger: id, position, height and gap of each entry.
shape(state) ==
  [next_id |-> state.next_id,
   entries |-> [i \in DOMAIN state.entries |->
                  <<state.entries[i].id, state.entries[i].position,
                    state.entries[i].height, state.entries[i].gap>>]]

\* C27: on an empty ledger a reserve in top with height 50 and gap 10 returns
\* offset 0 and id 1; a second reserve in top with height 30 and gap 5 returns
\* offset 60 and id 2; the release of lease 1 leaves the entry of lease 2 alone;
\* a third reserve in top then returns id 3 and offset 35, and stack_offset_for_id
\* for lease 3 gives 35 (for lease 2 it gives 0).
C27_Scenario ==
  /\ [](\A p \in Instances :
          (/\ pc[p] = "loop"
           /\ guard[p] = [id |-> 3, position |-> "top"]
           /\ Len(load_state(file).entries) = 2
           /\ shape(load_state(file)).entries[1] = <<2, "top", 30, 5>>
           /\ load_state(file).entries[2].id = 3) =>
            /\ stack_offset_for_id(load_state(file), guard[p]) = 35
            /\ stack_offset_for_id(load_state(file), [id |-> 2, position |-> "top"]) = 0
            /\ last_offset[p] = 35)
  /\ [][\A p \in Instances :
          /\ (/\ ScenarioReserve(p)
              /\ shape(load_state(file)) = [next_id |-> 1, entries |-> <<>>]
              /\ shape(st'[p]).entries = <<<<1, "top", 50, 10>>>>) =>
               (ret'[p] = 0 /\ st'[p].next_id = 2)
          /\ (/\ ScenarioReserve(p)
              /\ shape(load_state(file)) =
                   [next_id |-> 2, entries |-> <<<<1, "top", 50, 10>>>>]
              /\ cmd'[p].position = "top" /\ cmd'[p].height = 30 /\ cmd'[p].gap = 5) =>
               /\ ret'[p] = 60
               /\ shape(st'[p]) =
                    [next_id |-> 3,
                     entries |-> <<<<1, "top", 50, 10>>, <<2, "top", 30, 5>>>>]
          /\ (/\ DropLoad(p)
              /\ guard[p].id = 1
              /\ shape(load_state(file)) =
                   [next_id |-> 3,
                    entries |-> <<<<1, "top", 50, 10>>, <<2, "top", 30, 5>>>>]) =>
               shape(st'[p]) = [next_id |-> 3, entries |-> <<<<2, "top", 30, 5>>>>]
          /\ (/\ ScenarioReserve(p)
              /\ shape(load_state(file)) =
                   [next_id |-> 3, entries |-> <<<<2, "top", 30, 5>>>>]
              /\ cmd'[p].position = "top") =>
               /\ ret'[p] = 35
               /\ st'[p].next_id = 4
               /\ st'[p].entries[2].id = 3
          /\ ReserveSave(p) =>
               /\ guard'[p].id = st[p].next_id - 1
               /\ last_offset'[p] = ret[p]
               /\ load_state(file') = st[p]]_vars

\* Lease 1 has been released, lease 2 is held and the third instance holds lease 3
\* at offset 35.
C27_Witness ==
  \E p, q \in Instances :
    /\ pc[p] = "loop" /\ pc[q] = "loop"
    /\ guard[p] = [id |-> 3, position |-> "top"]
    /\ guard[q] = [id |-> 2, position |-> "top"]
    /\ last_offset[p] = 35
    /\ last_offset[q] = 0
    /\ shape(load_state(file)).entries[1] = <<2, "top", 30, 5>>
    /\ Len(load_state(file).entries) = 2

\* ---- C28
\* C28: handle_signal changes SHOULD_CLOSE and nothing else; an instance whose flag
\* is set starts no further turn of the loop: from the top of the loop it goes to
\* the drop of its guard only, and it leaves the loop for the drop only; and an
\* instance whose flag was set in the loop reaches the drop of its guard and
\* returns.
C28_CooperativeShutdown ==
  /\ [][\A p \in Instances :
          /\ LoopSignal(p) =>
               /\ should_close'[p]
               /\ \A q \in Procs \ {p} : should_close'[q] = should_close[q]
               /\ UNCHANGED <<file, lock, procs, now, pc, cmd, st, ret, guard,
                              last_offset, deadline, closed, surface>>
          /\ should_close[p] => ~(pc[p] = "loop" /\ pc'[p] = "dispatch")
          /\ (should_close[p] /\ pc[p] \in InLoop /\ pc'[p] \notin InLoop) =>
               pc'[p] = "drop"
          /\ (should_close[p] /\ pc[p] = "loop" /\ pc'[p] # "loop") =>
               (pc'[p] = "drop" /\ guard'[p] = guard[p] /\ file' = file)
          /\ (LoopDropSave(p) /\ guard[p] # NoGuard) =>
               \A i \in DOMAIN load_state(file').entries :
                 load_state(file').entries[i].id # guard[p].id]_vars
  /\ \A p \in Instances : (should_close[p] /\ pc[p] \in InLoop) ~> (pc[p] = "drop")
  /\ \A p \in Instances : (should_close[p] /\ pc[p] \in InLoop) ~> (pc[p] = "none")

\* The signal has come in the middle of a turn, in an instance with a slot that is
\* about to read the ledger for the poller; nothing else ends its loop.
C28_Witness ==
  \E p \in Instances :
    /\ pc[p] = "poll_read"
    /\ should_close[p]
    /\ ~closed[p]
    /\ now < deadline[p]
    /\ guard[p] # NoGuard

\* ---- C30
\* C30: an instance that has been started returns, and one that is in its loop
\* leaves it; after the roundtrip that follows the first commit the buffer can be
\* drawn and attached whether a Configure has come or not, so that an instance whose
\* surface was never configured goes on to its loop or returns an error.
C30_Termination ==
  /\ [](\A p \in Instances : pc[p] = "draw" => ENABLED LoopDraw(p))
  /\ [][\A p \in Instances :
          (pc[p] = "draw" /\ pc'[p] # "draw") => pc'[p] \in {"loop", "drop"}]_vars
  /\ \A p \in Instances : (pc[p] = "draw" /\ ~surface[p].configured) ~> (pc[p] # "draw")
  /\ \A p \in Instances : (pc[p] \in InLoop) ~> (pc[p] \notin InLoop)
  /\ \A p \in Instances : (pc[p] # "none") ~> (pc[p] = "none")

\* The roundtrip is over and no Configure has come for the surface of an instance
\* that holds a slot and has a timeout.
C30_Witness ==
  \E p \in Instances :
    /\ pc[p] = "draw"
    /\ ~surface[p].configured
    /\ cmd[p].timeout_ms > 0
    /\ guard[p] # NoGuard

\* ------------------------------------------- the arithmetic of the ledger
\* height, gap and the offsets are i32, next_id is u64 (four limbs of 16 bits here,
\* the most significant first). The ledger is what a peer has left in stack.json:
\* any content that load_state parses.
MaxOverflow == 2   \* longest ledger given to the operations here

I32_MAX == 2147483647
I32_MIN == -I32_MAX - 1
LIMB == 65536

U64_MAX == <<LIMB - 1, LIMB - 1, LIMB - 1, LIMB - 1>>
u64(n) == <<0, 0, 0, n>>

\* a + b in i32: whether it overflows, and the sum modulo 2^32.
add_i32(a, b) ==
  IF b >= 0 /\ a > I32_MAX - b
    THEN [overflow |-> TRUE, value |-> (a + I32_MIN) + (b + I32_MIN)]
  ELSE IF b < 0 /\ a < I32_MIN - b
    THEN [overflow |-> TRUE, value |-> (a - I32_MIN) + (b - I32_MIN)]
  ELSE [overflow |-> FALSE, value |-> a + b]

\* x + 1 in u64: whether it overflows, and the sum modulo 2^64.
add_one_u64(x) ==
  LET low == {i \in 1..4 : x[i] < LIMB - 1}
      at == IF low = {} THEN 0 ELSE CHOOSE i \in low : \A j \in low : j <= i
  IN  [overflow |-> low = {},
       value |-> [i \in 1..4 |-> IF i < at THEN x[i] ELSE IF i = at THEN x[i] + 1 ELSE 0]]

\* offset += entry.height + entry.gap, over the entries in turn.
RECURSIVE sum_i32(_, _)
sum_i32(entries, offset) ==
  IF entries = <<>> THEN offset
  ELSE LET extent == add_i32(Head(entries).height, Head(entries).gap)
           next == add_i32(offset.value, extent.value)
       IN  sum_i32(Tail(entries),
                   [overflow |-> offset.overflow \/ extent.overflow \/ next.overflow,
                    value |-> next.value])

\* The entries stack_offset_for_id adds up: those of the position before the one
\* with the guard's id.
RECURSIVE before_id(_, _)
before_id(entries, g) ==
  IF entries = <<>> THEN <<>>
  ELSE IF Head(entries).position # g.position THEN before_id(Tail(entries), g)
  ELSE IF Head(entries).id = g.id THEN <<>>
  ELSE <<Head(entries)>> \o before_id(Tail(entries), g)

reserve_offset_i32(state, key) ==
  LET same(entry) == entry.position = key
  IN  sum_i32(SelectSeq(state.entries, same), [overflow |-> FALSE, value |-> 0])

stack_offset_for_id_i32(state, g) ==
  sum_i32(before_id(state.entries, g), [overflow |-> FALSE, value |-> 0])

\* What an operation returns: with overflow checks the first overflow is a panic,
\* without them the sum has wrapped around and the operation goes on.
outcome_of(op, overflow, checks, value) ==
  [op |-> op, ok |-> ~(overflow /\ checks), overflow |-> overflow,
   panic |-> overflow /\ checks, value |-> IF overflow /\ checks THEN 0 ELSE value]

Extents == {0, 2, I32_MAX, I32_MIN}
Gaps == {0, 1, -1}
NextIds == {u64(1), u64(LIMB - 1), U64_MAX}

peer_entry(i, height, gap) ==
  [id |-> u64(i), position |-> "top", height |-> height, gap |-> gap, expires_at |-> 0,
   created_at |-> 1, pid |-> 0, name |-> "none", class |-> "none", summary |-> "msg"]

InitOverflow ==
  /\ file = NoFile
  /\ lock = 0
  /\ procs = {}
  /\ now = 1
  /\ pc = [p \in Procs |-> "none"]
  /\ cmd = [p \in Procs |-> NoCmd]
  /\ st = [p \in Procs |-> default]
  /\ ret = [p \in Procs |-> 0]
  /\ guard = [p \in Procs |-> NoGuard]
  /\ last_offset = [p \in Procs |-> 0]
  /\ deadline = [p \in Procs |-> 0]
  /\ closed = [p \in Procs |-> FALSE]
  /\ should_close = [p \in Procs |-> FALSE]
  /\ issued = {}
  /\ \E n \in 0..MaxOverflow, next_id \in NextIds :
       \E f \in [1..n -> Extents \X Gaps] :
         pin = [next_id |-> next_id,
                entries |-> [i \in 1..n |-> peer_entry(i, f[i][1], f[i][2])]]
  /\ pout = NoOut
  /\ NoAux

\* reserve_stack_slot in the position of the entries: the offset, then next_id += 1.
OverflowReserve ==
  /\ result = NoResult
  /\ \E checks \in BOOLEAN :
       LET state == prune_entries(pin, now, procs)
           offset == reserve_offset_i32(state, position_key("top"))
           next_id == add_one_u64(state.next_id)
       IN  result' = outcome_of("reserve", offset.overflow \/ next_id.overflow, checks,
                                offset.value)
  /\ UNCHANGED <<file, lock, procs, now, pc, cmd, st, ret, loopvars, should_close,
                 issued, pin, pout, tmp, keep_entries, signalled, surface>>

\* stack_offset_for_id for a guard of the position.
OverflowPoll ==
  /\ result = NoResult
  /\ \E checks \in BOOLEAN, i \in 1..(MaxOverflow + 1) :
       LET offset == stack_offset_for_id_i32(pin, [id |-> u64(i), position |-> "top"])
       IN  result' = outcome_of("poll", offset.overflow, checks, offset.value)
  /\ UNCHANGED <<file, lock, procs, now, pc, cmd, st, ret, loopvars, should_close,
                 issued, pin, pout, tmp, keep_entries, signalled, surface>>

\* Drop for StackGuard: retain, no arithmetic.
OverflowRelease ==
  /\ result = NoResult
  /\ \E i \in 1..(MaxOverflow + 1) :
       LET state == release_entry(pin, [id |-> u64(i), position |-> "top"])
       IN  result' = outcome_of("release", FALSE, FALSE, Len(state.entries))
  /\ UNCHANGED <<file, lock, procs, now, pc, cmd, st, ret, loopvars, should_close,
                 issued, pin, pout, tmp, keep_entries, signalled, surface>>

NextOverflow == OverflowReserve \/ OverflowPoll \/ OverflowRelease

SpecOverflow == InitOverflow /\ [][NextOverflow]_vars

\* ---- C29
\* C29: on every ledger content that parses, reserve, the poller and release end
\* without an arithmetic overflow in the i32 sum of the offsets or in the u64
\* next_id + 1, and without a panic.
C29_NoOverflow ==
  result.op \in {"reserve", "poll", "release"} =>
    (result.ok /\ ~result.overflow /\ ~result.panic)

\* ------------------------------------------------- the margin in the loop
\* Instances in two classes, one stacked from the top and one from the bottom, whose
\* offsets change when a peer releases its slot.
MaxMargin == 3   \* no instance is started once next_id has passed this

MarginShows == {show("top", 2, 1, 5, "water", "reminder"),
                show("top", 3, 1, 5, "none", "reminder"),
                show("bottom-left", 2, 1, 5, "none", "reminder"),
                show("bottom-left", 3, 1, 5, "water", "reminder")}

\* The requests of a margin update in the loop.
margin_requests == <<"set_margin", "commit">>

\* Mutant: the margin is set at every run of the poller and last_offset is not read.
offset_changed_always(offset, last) == TRUE

\* if offset != last_offset
offset_changed(offset, last) == offset # last

marginframe == <<now, closed, should_close, issued, pin, pout, tmp, keep_entries,
                 signalled, result>>

\* reserve_stack_slot up to the save.
MarginReserve(p) ==
  /\ p \in Instances
  /\ pid_unused(p)
  /\ load_state(file).next_id <= MaxMargin
  /\ lock_free(p)
  /\ lock' = p
  /\ \E c \in MarginShows :
       /\ spawn(p, c)
       /\ LET state == prune_entries(load_state(file), now, procs')
          IN  /\ ret' = [ret EXCEPT ![p] = reserve_offset(state, position_key(c.position))]
              /\ st' = [st EXCEPT ![p] = reserve_push(state, p, c, now)]
  /\ pc' = [pc EXCEPT ![p] = "reserve_save"]
  /\ surface' = [surface EXCEPT ![p] = NoSurface]
  /\ UNCHANGED <<file, guard, last_offset, deadline, marginframe>>

\* save_state, the lock is dropped, the offset and the guard are returned.
MarginReserveSave(p) ==
  /\ pc[p] = "reserve_save"
  /\ file' = save_state(st[p])
  /\ guard' = [guard EXCEPT ![p] = [id |-> st[p].next_id - 1,
                                    position |-> position_key(cmd[p].position)]]
  /\ lock' = unlock(p)
  /\ st' = [st EXCEPT ![p] = default]
  /\ pc' = [pc EXCEPT ![p] = "display"]
  /\ UNCHANGED <<procs, cmd, ret, last_offset, deadline, surface, marginframe>>

\* The margin with the offset of the reservation, the first commit, the roundtrip,
\* the buffer and the second commit; last_offset = stack_offset.
MarginDisplay(p) ==
  /\ pc[p] = "display"
  /\ LET base == position_to_anchor(cmd[p].position).margins
     IN  surface' = [surface EXCEPT
                       ![p].margins = apply_stack_offset(base, cmd[p].position, ret[p]),
                       ![p].requests = first_commit_requests \o buffer_requests,
                       ![p].commits = 2,
                       ![p].attached = TRUE]
  /\ enter_loop(p, ret[p], cmd[p].timeout_ms)
  /\ ret' = [ret EXCEPT ![p] = 0]
  /\ UNCHANGED <<file, lock, procs, cmd, st, guard, marginframe>>

\* Mutant: the poller saves the entries of its own position.
file_after_poll_position(f, g) ==
  LET same(entry) == entry.position = g.position
  IN  save_state([load_state(f) EXCEPT !.entries = SelectSeq(@, same)])

\* stack_offset_for_id has no prune_entries and no save_state: the file is as it was.
file_after_poll(f, g) == f

\* One turn of the loop in which the poller is due and stack_offset_for_id returns
\* Ok: a new offset is put into the margin and kept in last_offset.
MarginPoll(p) ==
  /\ pc[p] = "loop"
  /\ loop_continues(p)
  /\ guard[p] # NoGuard
  /\ lock_free(p)
  /\ LET offset == stack_offset_for_id(load_state(file), guard[p])
         base == position_to_anchor(cmd[p].position).margins
     IN  IF offset_changed(offset, last_offset[p])
         THEN /\ surface' = [surface EXCEPT
                               ![p].margins = apply_stack_offset(base, cmd[p].position, offset),
                               ![p].requests = @ \o margin_requests,
                               ![p].commits = @ + 1]
              /\ last_offset' = [last_offset EXCEPT ![p] = offset]
         ELSE UNCHANGED <<surface, last_offset>>
  /\ file' = file_after_poll(file, guard[p])
  /\ UNCHANGED <<lock, procs, pc, cmd, st, ret, guard, deadline, marginframe>>

\* The poller is due and stack_offset_for_id returns Err: `if let Ok(offset)` is
\* not taken.
MarginPollErr(p) ==
  /\ pc[p] = "loop"
  /\ loop_continues(p)
  /\ guard[p] # NoGuard
  /\ UNCHANGED vars

MarginStep(p) ==
  \/ MarginReserve(p) \/ MarginReserveSave(p) \/ MarginDisplay(p)
  \/ MarginPoll(p) \/ MarginPollErr(p)
  \/ DropLoad(p) \/ DropSave(p)

NextMargin == (\E p \in Instances : MarginStep(p)) \/ Tick

SpecMargin == Init /\ [][NextMargin]_vars

\* ---- C31
\* C31: in the loop the margin is the base margin of the position with last_offset
\* added to the bottom margin for bottom, bottom-left and bottom-right and to the top
\* margin for the others; the margin changes in the loop only in a run of the poller
\* that returns an offset other than last_offset, which sets the margin, commits
\* once without attaching a buffer and keeps the offset in last_offset; a run that
\* fails changes nothing.
C31_MarginUpdate ==
  /\ [](\A p \in Instances :
          pc[p] = "loop" =>
            LET base == position_to_anchor(cmd[p].position).margins
                m == surface[p].margins
            IN  /\ m.left = base.left /\ m.right = base.right
                /\ IF cmd[p].position \in {"bottom", "bottom-left", "bottom-right"}
                   THEN m.bottom = base.bottom + last_offset[p] /\ m.top = base.top
                   ELSE m.top = base.top + last_offset[p] /\ m.bottom = base.bottom)
  /\ [][\A p \in Instances :
          /\ (pc[p] = "loop" /\ surface'[p] # surface[p]) =>
               /\ MarginPoll(p)
               /\ last_offset'[p] # last_offset[p]
               /\ last_offset'[p] = stack_offset_for_id(load_state(file), guard[p])
               /\ surface'[p].commits = surface[p].commits + 1
               /\ surface'[p].requests = surface[p].requests \o <<"set_margin", "commit">>
               /\ surface'[p].attached = surface[p].attached
               /\ file' = file
          /\ (pc[p] = "loop" /\ last_offset'[p] # last_offset[p] /\ pc'[p] = "loop") =>
               surface'[p].margins # surface[p].margins
          /\ MarginPollErr(p) => UNCHANGED <<surface, last_offset>>]_vars

\* A notification stacked from the bottom has moved down to the base margin after
\* its peer released the slot below it.
C31_Witness ==
  \E p \in Instances :
    /\ pc[p] = "loop"
    /\ cmd[p].position = "bottom-left"
    /\ last_offset[p] = 0
    /\ surface[p].commits = 3
    /\ surface[p].margins = [top |-> 0, right |-> 0, bottom |-> 20, left |-> 20]

\* ---- C32
\* C32: a run of the poller, whether it returns an offset or fails, leaves next_id
\* alone and leaves in the ledger, unchanged and in their order, all the entries
\* that are neither expired nor owned by a dead process; it adds no entry.
C32_PollerReadOnly ==
  [][\A p \in Instances :
       (MarginPoll(p) \/ MarginPollErr(p)) =>
         LET before == load_state(file)
             after == load_state(file')
         IN  /\ after.next_id = before.next_id
             /\ KeptInOrder(before.entries, after.entries)
             /\ \A i \in DOMAIN before.entries :
                  Live(before.entries[i], procs) => Holds(after.entries, before.entries[i])]_vars

\* The poller has moved a notification in the top class while the ledger holds the
\* entry of a peer in the other class.
C32_Witness ==
  \E p \in Instances :
    /\ pc[p] = "loop"
    /\ guard[p].position = "top"
    /\ surface[p].commits = 3
    /\ \E i \in DOMAIN Ledger : Ledger[i].position = "bottom-left"
    /\ \E i \in DOMAIN Ledger : Ledger[i].id = guard[p].id

\* ---- C33
\* C33: while an instance holds a lease and is in its loop with its deadline ahead
\* and no close requested, a step takes its entry out of the ledger file only when
\* it is the save of a clear whose selector matches the entry.
C33_EntryWhileDisplayed ==
  [][\A p \in Instances :
       (/\ Showing(p) /\ loop_continues(p)
        /\ InLedger(guard[p].id)
        /\ pc'[p] = "loop"
        /\ \A i \in DOMAIN load_state(file').entries :
             load_state(file').entries[i].id # guard[p].id) =>
         (pc[Ctl] = "clear_save" /\ clear_matches(EntryOf(guard[p].id), cmd[Ctl].selector))]_vars

\* ------------------------------------------- SHOULD_CLOSE from the start
\* run_alert from its first line, with the signals that come once handle_signal is
\* installed; the instances make no reservation here.
SignalTimeouts == {0, 1}

signalframe == <<file, lock, st, ret, guard, last_offset, issued, pin, pout, tmp,
                 keep_entries, signalled, surface, result>>

\* install_signal_handlers()
SignalInstall(p) ==
  /\ p \in Instances
  /\ now < MaxTime
  /\ \E t \in SignalTimeouts : spawn(p, show("top", 2, 1, t, "none", "none"))
  /\ pc' = [pc EXCEPT ![p] = "installed"]
  /\ UNCHANGED <<now, deadline, closed, should_close, signalframe>>

\* SHOULD_CLOSE.store(false, Ordering::Relaxed)
SignalStore(p) ==
  /\ pc[p] = "installed"
  /\ should_close' = [should_close EXCEPT ![p] = FALSE]
  /\ pc' = [pc EXCEPT ![p] = "setup"]
  /\ UNCHANGED <<procs, now, cmd, deadline, closed, signalframe>>

\* The connection, the surface and the buffer; the deadline is set.
SignalSetup(p) ==
  /\ pc[p] = "setup"
  /\ deadline' = [deadline EXCEPT ![p] = now + cmd[p].timeout_ms]
  /\ pc' = [pc EXCEPT ![p] = "loop"]
  /\ UNCHANGED <<procs, now, cmd, closed, should_close, signalframe>>

\* A call of the setup returns Err.
SignalSetupErr(p) ==
  /\ pc[p] = "setup"
  /\ pc' = [pc EXCEPT ![p] = "drop"]
  /\ UNCHANGED <<procs, now, cmd, deadline, closed, should_close, signalframe>>

\* handle_signal, on SIGTERM or SIGINT, at any point after the installation.
SignalDeliver(p) ==
  /\ pc[p] \in {"installed", "setup", "loop", "dispatch", "drop"}
  /\ should_close' = [should_close EXCEPT ![p] = TRUE]
  /\ UNCHANGED <<procs, now, pc, cmd, deadline, closed, signalframe>>

\* The top of the loop.
SignalCheck(p) ==
  /\ pc[p] = "loop"
  /\ pc' = [pc EXCEPT ![p] = IF loop_continues(p) THEN "dispatch" ELSE "drop"]
  /\ UNCHANGED <<procs, now, cmd, deadline, closed, should_close, signalframe>>

\* dispatch_with_timeout and flush.
SignalDispatch(p) ==
  /\ pc[p] = "dispatch"
  /\ \E event \in {"none", "Closed"} :
       closed' = [closed EXCEPT ![p] = @ \/ event # "none"]
  /\ pc' = [pc EXCEPT ![p] = "loop"]
  /\ UNCHANGED <<procs, now, cmd, deadline, should_close, signalframe>>

\* drop(stack_guard) with None, and the return of run_alert.
SignalReturn(p) ==
  /\ pc[p] = "drop"
  /\ process_exit(p)
  /\ UNCHANGED <<file, now, issued, pure>>

NextSignal ==
  \/ \E p \in Instances :
       \/ SignalInstall(p) \/ SignalStore(p) \/ SignalSetup(p) \/ SignalSetupErr(p)
       \/ SignalDeliver(p)
       \/ SignalCheck(p) \/ SignalDispatch(p) \/ SignalReturn(p)
  \/ LoopTick

SpecSignal == Init /\ [][NextSignal]_vars

\* ---- C34
\* C34: once handle_signal has set SHOULD_CLOSE in an instance whose handlers are
\* installed, the flag stays set until the instance returns.
C34_NoLostShutdown ==
  [][\A p \in Instances :
       (should_close[p] /\ pc[p] # "none" /\ pc'[p] # "none") => should_close'[p]]_vars

\* ---- C35
\* C35: when a clear returns an error, after a send_sigterm that failed or a save
\* that failed, the ledger file is as it was and no owner of an entry that is still
\* in the file has been sent SIGTERM by this clear.
C35_ClearAllOrNothing ==
  [][(pc[Ctl] = "clear_loop" /\ pc'[Ctl] = "none" /\ ~result'.ok) =>
       /\ file' = file
       /\ \A s \in signalled' :
            s.rc = "ok" =>
              \A i \in DOMAIN load_state(file').entries :
                load_state(file').entries[i].id # s.id]_vars

\* ---- C36
\* C36: from an absent ledger, in every state the entries of the ledger file are in
\* strictly increasing order of id and every id is below next_id; next_id never
\* goes down, and it changes only in the save of a reservation, by 1.
C36_LedgerOrder ==
  /\ [](/\ \A i, j \in DOMAIN Ledger : i < j => Ledger[i].id < Ledger[j].id
        /\ \A i \in DOMAIN Ledger : Ledger[i].id < load_state(file).next_id)
  /\ [][/\ load_state(file').next_id >= load_state(file).next_id
        /\ load_state(file').next_id # load_state(file).next_id =>
             /\ load_state(file').next_id = load_state(file).next_id + 1
             /\ \E p \in Instances : pc[p] = "reserve_save" /\ ReserveSave(p)]_vars

\* The ledger holds the entries 1 and 3: the lease between them has been released
\* and a reservation has been made since.
C36_Witness ==
  /\ Len(Ledger) = 2
  /\ Ledger[1].id = 1 /\ Ledger[2].id = 3
  /\ load_state(file).next_id = 4

\* ------------------------------------------------ the pid given to kill
\* A stored pid is a u32 (two limbs of 16 bits here, the most significant first);
\* kill takes an i32.
PidLimbs == {0, 1, 2, LIMB \div 2 - 1, LIMB \div 2, LIMB - 2, LIMB - 1}

\* `pid as i32`: the same 32 bits read as two's complement.
as_i32(pid) ==
  IF pid[1] < LIMB \div 2 THEN pid[1] * LIMB + pid[2]
  ELSE (pid[1] - LIMB) * LIMB + pid[2]

\* kill(2): whom a signal for `n` is for.
kill_target(n) ==
  CASE n > 0 -> [kind |-> "process", id |-> n]
    [] n = 0 -> [kind |-> "own group", id |-> 0]
    [] n = -1 -> [kind |-> "every process", id |-> 0]
    [] n = I32_MIN -> [kind |-> "no process", id |-> 0]
    [] OTHER -> [kind |-> "group", id |-> -n]

NoTarget == [kind |-> "none", id |-> 0]

InitCast ==
  /\ file = NoFile
  /\ lock = 0
  /\ procs = {}
  /\ now = 1
  /\ pc = [p \in Procs |-> "none"]
  /\ cmd = [p \in Procs |-> NoCmd]
  /\ st = [p \in Procs |-> default]
  /\ ret = [p \in Procs |-> 0]
  /\ guard = [p \in Procs |-> NoGuard]
  /\ last_offset = [p \in Procs |-> 0]
  /\ deadline = [p \in Procs |-> 0]
  /\ closed = [p \in Procs |-> FALSE]
  /\ should_close = [p \in Procs |-> FALSE]
  /\ issued = {}
  /\ pin \in PidLimbs \X PidLimbs
  /\ pout = NoOut
  /\ NoAux

\* process_alive(entry.pid): no kill for pid 0, kill(pid as i32, 0) otherwise.
CastProbe ==
  /\ result = NoResult
  /\ result' = [op |-> "process_alive", ok |-> TRUE, value |-> 0,
                target |-> IF pin = <<0, 0>> THEN NoTarget ELSE kill_target(as_i32(pin))]
  /\ UNCHANGED <<file, lock, procs, now, pc, cmd, st, ret, loopvars, should_close,
                 issued, pin, pout, tmp, keep_entries, signalled, surface>>

\* send_sigterm(entry.pid): no kill for pid 0, kill(pid as i32, SIGTERM) otherwise.
CastSigterm ==
  /\ result = NoResult
  /\ result' = [op |-> "send_sigterm", ok |-> TRUE, value |-> 0,
                target |-> IF pin = <<0, 0>> THEN NoTarget ELSE kill_target(as_i32(pin))]
  /\ UNCHANGED <<file, lock, procs, now, pc, cmd, st, ret, loopvars, should_close,
                 issued, pin, pout, tmp, keep_entries, signalled, surface>>

NextCast == CastProbe \/ CastSigterm

SpecCast == InitCast /\ [][NextCast]_vars

\* ---- C38
\* C38: for every stored pid other than 0, the kill of process_alive and the kill
\* of send_sigterm are for one process, the one with that pid: the i32 they pass is
\* positive and has the value of the pid.
C38_SingleOwner ==
  (result.op \in {"process_alive", "send_sigterm"} /\ pin # <<0, 0>>) =>
    /\ result.target.kind = "process"
    /\ result.target.id > 0
    /\ pin[1] < LIMB \div 2
    /\ result.target.id = pin[1] * LIMB + pin[2]

\* ---- C37
Requested(r, x) == \E i \in DOMAIN r : r[i] = x

\* The index of the first request x of r.
first_index(r, x) == CHOOSE i \in DOMAIN r : r[i] = x /\ \A j \in 1..(i - 1) : r[j] # x

commit_count(r) == Cardinality({i \in DOMAIN r : r[i] = "commit"})

layer_requests ==
  {"set_anchor", "set_margin", "set_size", "set_keyboard_interactivity",
   "set_exclusive_zone"}

\* C37: on the surface of one instance the anchor, the margin, the size, the
\* keyboard interactivity and the exclusive zone are set before the first commit;
\* no buffer is attached by the first commit; the buffer is attached, and damaged
\* over its whole size, only once the roundtrip after the first commit has
\* returned; the second commit follows the attach; and the stack slot is reserved
\* before the first commit, whose margin is the base margin of the position plus
\* the stacking offset.
C37_ProtocolOrder ==
  /\ [](\A p \in Instances :
         LET r == surface[p].requests
         IN  /\ commit_count(r) = surface[p].commits
             /\ Requested(r, "commit") =>
                   \A x \in layer_requests :
                     Requested(r, x) /\ first_index(r, x) < first_index(r, "commit")
             /\ Requested(r, "attach") =>
                   /\ Requested(r, "commit")
                   /\ first_index(r, "commit") < first_index(r, "attach")
                   /\ first_index(r, "attach") + 1 \in DOMAIN r
                   /\ r[first_index(r, "attach") + 1] = "damage_buffer"
                   /\ \E j \in DOMAIN r :
                        j > first_index(r, "attach") + 1 /\ r[j] = "commit"
                   /\ commit_count(r) = 2
                   /\ surface[p].damage = [width |-> surface[p].pixel_width,
                                           height |-> surface[p].pixel_height]
                   /\ surface[p].pixel_width > 0 /\ surface[p].pixel_height > 0
             /\ surface[p].attached <=> Requested(r, "attach")
             /\ pc[p] \in {"roundtrip", "reserve_save"} => r = <<>>)
  /\ [][\A p \in Instances :
         LET r == surface[p].requests
             after == surface'[p].requests
             base == position_to_anchor(cmd[p].position).margins
             below == cmd[p].position \in {"bottom", "bottom-left", "bottom-right"}
         IN  /\ (~Requested(r, "commit") /\ Requested(after, "commit")) =>
                   /\ ~Requested(after, "attach")
                   /\ ~surface'[p].attached
                   /\ pc'[p] = "configure"
                   /\ lock # p
                   /\ surface'[p].margins =
                        [base EXCEPT !.top = IF below THEN @ ELSE @ + ret[p],
                                     !.bottom = IF below THEN @ + ret[p] ELSE @]
             /\ (~Requested(r, "attach") /\ Requested(after, "attach")) =>
                   /\ pc[p] = "configure"
                   /\ commit_count(r) = 1
             /\ (guard'[p] # guard[p] /\ guard'[p] # NoGuard) =>
                   /\ r = <<>> /\ after = <<>>
                   /\ ret'[p] = ret[p]]_vars

\* A displayed instance that holds a slot below another entry: both commits are
\* made and the margin of the first carries a stacking offset.
C37_Witness ==
  /\ surface[1].attached
  /\ pc[1] = "loop"
  /\ guard[1] # NoGuard
  /\ surface[1].margins.top > edge
  /\ Len(surface[1].requests) = 11

====
